---- MODULE Spec2Model ----
(***************************************************************************)
(* Model of the task scheduler (scheduler.py), the bounded-concurrency     *)
(* batch executors (async_scraper.py) and the TTL cache of the store       *)
(* (database.py).                                                          *)
(*                                                                         *)
(* Time is an integer clock.  One day is DayLen clock units; task          *)
(* timeouts and interval periods are given in the same units.              *)
(***************************************************************************)
EXTENDS Integers, Sequences, FiniteSets, TLC

VARIABLES
    now,            \* wall clock (datetime.now() / time.time())
    tasks,          \* TaskScheduler.tasks: dict id -> ScheduledTask, in insertion order
    persist_file,   \* contents of tasks.pkl: serialized dict, in insertion order
    jobs,           \* the jobs list of the schedule module (one entry per .do() call)
    running_tasks,  \* TaskScheduler.running_tasks: ids with an asyncio task in flight
    exec,           \* the execution the scheduler thread is inside of, or NoExec
    sched_alive,    \* the scheduler thread is still inside _run_scheduler
    api,            \* the call the API thread is inside of, or NoCall
    ret,            \* the outcome of the API call that returned in the last step
    hist,           \* history of the task registered under each id (observation only)
    calls,          \* add_task calls and restarts made so far (bounds the model)
    submits,        \* the <<id, shape>> submissions callers make (never changes)
    disk,           \* whether writing tasks.pkl works: "ok", "open_fails", "dump_fails"
    is_running,     \* TaskScheduler.is_running
    old_exec,       \* the execution a scheduler thread stopped earlier is still inside of
    retry,          \* a call of a function wrapped by retry_on_failure
    rate_limit,     \* a function wrapped by rate_limit, and the calls made to it
    batch,          \* the bulk call in progress: its kind and its number of items
    items,          \* the coroutine of each item of the batch
    db,             \* the content / keywords table of the store, by key
    semaphore,      \* free permits of the batch's asyncio.Semaphore
    max_concurrent  \* AsyncHTTPClient.max_concurrent of the batch's client

envVars == <<disk, is_running, old_exec, retry, rate_limit>>

registryVars == <<tasks, persist_file, jobs, running_tasks, exec, sched_alive, api, hist,
                  calls, submits, envVars>>

schedVars == <<now, ret, registryVars>>

batchVars == <<batch, items, db, semaphore, max_concurrent>>

vars == <<schedVars, batchVars>>

----------------------------------------------------------------------------
(* Bounds of the model *)

MaxTime == 5        \* the clock stops here
MaxAdds == 2        \* add_task calls in a behaviour
MaxRestarts == 1    \* process restarts in a behaviour
MaxRetries == 1     \* largest max_retries a submitted task carries
IntervalP == 2      \* period of the submitted interval tasks
TaskTimeout == 1    \* timeout of the submitted tasks
DayLen == 2         \* clock units per day
MaxConcurrent == 2  \* max_concurrent the HTTP client of a batch is built with
BatchTicks == 1     \* clock ticks while a batch is in progress

\* the ids callers submit tasks under
TaskIds == {1, 2}
WeekLen == 7 * DayLen

----------------------------------------------------------------------------
(* ScheduledTask, TaskStatus, TaskPriority *)

None == -1

NoTask == [id |-> 0]

NoExec == [id |-> 0]

NoCall == [op |-> "none"]

NoRet == [op |-> "none"]

StatusValue(s) ==
    CASE s = "PENDING" -> "pending"
      [] s = "RUNNING" -> "running"
      [] s = "COMPLETED" -> "completed"
      [] s = "FAILED" -> "failed"
      [] s = "CANCELLED" -> "cancelled"

TaskStatus(v) ==
    CASE v = "pending" -> "PENDING"
      [] v = "running" -> "RUNNING"
      [] v = "completed" -> "COMPLETED"
      [] v = "failed" -> "FAILED"
      [] v = "cancelled" -> "CANCELLED"

PriorityValue(p) ==
    CASE p = "LOW" -> 1
      [] p = "MEDIUM" -> 2
      [] p = "HIGH" -> 3
      [] p = "CRITICAL" -> 4

TaskPriority(v) ==
    CASE v = 1 -> "LOW"
      [] v = 2 -> "MEDIUM"
      [] v = 3 -> "HIGH"
      [] v = 4 -> "CRITICAL"

\* The handlers of task_functions, by how they behave under wait_for:
\* the ones that await network work, and the ones that make one synchronous
\* call inside the coroutine and never yield to the event loop.
YieldingFns == {"bulk_url_analysis", "analyze_keywords"}
BlockingFns == {"analyze_url", "competitor_analysis"}
task_functions == YieldingFns \cup BlockingFns

\* ScheduledTask(...) as a caller constructs it: the dataclass defaults for
\* last_run, next_run, run_count, retry_count, result, error.
ScheduledTask(id, sh, t) ==
    [id |-> id, function |-> sh.function,
     schedule_type |-> sh.schedule_type, schedule_value |-> sh.schedule_value,
     priority |-> sh.priority, status |-> "PENDING", created_at |-> t,
     last_run |-> None, next_run |-> None, run_count |-> 0,
     max_runs |-> sh.max_runs, retry_count |-> 0,
     max_retries |-> sh.max_retries, timeout |-> sh.timeout,
     result |-> "none", error |-> "none"]

\* The submissions the model makes.  IntervalShapes: direct add_task calls
\* with interval triggers, over the kinds of handler, retry budgets and run
\* caps (TaskManager.schedule_data_cleanup and schedule_bulk_url_analysis
\* with a delay build such tasks).  CalendarShapes: the tasks that
\* schedule_daily_keyword_analysis, schedule_weekly_competitor_analysis and
\* schedule_bulk_url_analysis without a delay build.
IntervalShapes ==
    { [function |-> "bulk_url_analysis", schedule_type |-> "interval",
       schedule_value |-> IntervalP, priority |-> "HIGH", max_runs |-> None,
       max_retries |-> r, timeout |-> TaskTimeout] : r \in 0..MaxRetries }
    \cup
    { [function |-> "analyze_url", schedule_type |-> "interval",
       schedule_value |-> IntervalP, priority |-> "LOW", max_runs |-> 1,
       max_retries |-> MaxRetries, timeout |-> TaskTimeout],
      [function |-> "no_such_function", schedule_type |-> "interval",
       schedule_value |-> IntervalP, priority |-> "LOW", max_runs |-> None,
       max_retries |-> 0, timeout |-> TaskTimeout] }

CalendarShapes ==
    { [function |-> "analyze_keywords", schedule_type |-> "daily", schedule_value |-> 0,
       priority |-> "MEDIUM", max_runs |-> None, max_retries |-> MaxRetries,
       timeout |-> TaskTimeout],
      [function |-> "competitor_analysis", schedule_type |-> "weekly",
       schedule_value |-> None, priority |-> "LOW", max_runs |-> None,
       max_retries |-> MaxRetries, timeout |-> TaskTimeout],
      [function |-> "bulk_url_analysis", schedule_type |-> "once", schedule_value |-> 1,
       priority |-> "HIGH", max_runs |-> 1, max_retries |-> MaxRetries,
       timeout |-> TaskTimeout] }

----------------------------------------------------------------------------
(* The registry dict, kept in insertion order *)

Has(ts, id) == \E i \in DOMAIN ts : ts[i].id = id

Get(ts, id) == ts[CHOOSE i \in DOMAIN ts : ts[i].id = id]

Put(ts, t) ==
    IF Has(ts, t.id)
    THEN [i \in DOMAIN ts |-> IF ts[i].id = t.id THEN t ELSE ts[i]]
    ELSE Append(ts, t)

\* an entry that is kept and marked instead of deleted
MarkCancelled(ts, id) ==
    [i \in DOMAIN ts |-> IF ts[i].id = id THEN [ts[i] EXCEPT !.status = "CANCELLED"] ELSE ts[i]]

\* del self.tasks[task_id]
Del(ts, id) == SelectSeq(ts, LAMBDA r : r.id # id)

----------------------------------------------------------------------------
(* Persistence *)

\* _save_tasks: asdict(task) with the two enums replaced by their values.
SaveTasks(ts) ==
    [i \in DOMAIN ts |->
        [ts[i] EXCEPT !.priority = PriorityValue(ts[i].priority),
                      !.status = StatusValue(ts[i].status)]]

\* What tasks.pkl holds after _save_tasks wrote the registry ts over pf.  An
\* exception is logged and swallowed: when open() raises, the file is as it
\* was; when pickle.dump raises, the file was truncated by open(.., 'wb') and
\* loads as nothing.
WriteTasks(pf, ts) ==
    CASE disk = "ok" -> SaveTasks(ts)
      [] disk = "open_fails" -> pf
      [] disk = "dump_fails" -> <<>>

\* ScheduledTask(**task_dict) after the two values are turned back into enums.
LoadedTask(d) ==
    [d EXCEPT !.priority = TaskPriority(d.priority), !.status = TaskStatus(d.status)]

----------------------------------------------------------------------------
(* The schedule module's jobs *)

\* The next occurrence of time-of-day at, strictly after t.
NextAt(t, at) == CHOOSE u \in (t + 1)..(t + DayLen) : u % DayLen = at % DayLen

\* Job._schedule_next_run: the job's next_run, computed at time t.
NextRun(job, t) ==
    CASE job.unit = "seconds" -> t + job.interval
      [] job.unit = "days" -> NextAt(t, job.at)
      [] job.unit = "weeks" -> t + WeekLen

\* schedule.every()...do(self._execute_task_wrapper, task.id).tag(task.id)
NewJob(task, t) ==
    LET j == CASE task.schedule_type \in {"once", "daily"} ->
                    [tag |-> task.id, unit |-> "days", interval |-> 1, at |-> task.schedule_value]
               [] task.schedule_type = "weekly" ->
                    [tag |-> task.id, unit |-> "weeks", interval |-> 1, at |-> None]
               [] task.schedule_type = "interval" ->
                    [tag |-> task.id, unit |-> "seconds", interval |-> task.schedule_value,
                     at |-> None]
    IN  [tag |-> j.tag, unit |-> j.unit, interval |-> j.interval, at |-> j.at,
         next_run |-> NextRun(j, t)]

\* schedule.get_jobs(tag): the jobs carrying the tag, in list order.
GetJobs(js, tag) == SelectSeq(js, LAMBDA j : j.tag = tag)

\* _schedule_task: arms a job for the task, then copies the next_run of the
\* first job tagged with the id into the task and saves.  Gives the new
\* registry, the new jobs list and the new file.
ScheduleTask(ts, js, pf, task, t) ==
    LET js1 == IF task.schedule_type \in {"once", "daily", "weekly", "interval"}
               THEN Append(js, NewJob(task, t)) ELSE js
        job == GetJobs(js1, task.id)
    IN  IF Len(job) > 0
        THEN LET ts1 == Put(ts, [task EXCEPT !.next_run = job[1].next_run])
             IN  [tasks |-> ts1, jobs |-> js1, file |-> WriteTasks(pf, ts1)]
        ELSE [tasks |-> ts, jobs |-> js1, file |-> pf]

\* The keyword arguments ScheduledTask(**task_dict) accepts, and the records
\* that lines 331-334 turn into a task without raising: TaskPriority(v) and
\* TaskStatus(v) raise ValueError on a value of no member, ScheduledTask(**d)
\* raises TypeError on an unknown keyword or a missing required one.
FieldNames == DOMAIN ScheduledTask(0, CHOOSE sh \in IntervalShapes : TRUE, 0)

WellFormed(d) ==
    /\ DOMAIN d = FieldNames
    /\ d.priority \in {PriorityValue(p) : p \in {"LOW", "MEDIUM", "HIGH", "CRITICAL"}}
    /\ d.status \in {StatusValue(v) : v \in {"PENDING", "RUNNING", "COMPLETED", "FAILED",
                                              "CANCELLED"}}

\* _load_tasks: rebuilds the registry record by record; every pending task is
\* re-armed as it is read, and _schedule_task saves the registry as loaded
\* so far.  The loop is inside the try: a record that raises ends it, with
\* the records before it loaded.
RECURSIVE LoadFrom(_, _, _, _)
LoadFrom(recs, k, acc, t) ==
    IF k > Len(recs) THEN acc
    ELSE IF ~WellFormed(recs[k]) THEN acc
    ELSE LET task == LoadedTask(recs[k])
             ts1 == Put(acc.tasks, task)
         IN  IF task.status = "PENDING"
             THEN LoadFrom(recs, k + 1, ScheduleTask(ts1, acc.jobs, acc.file, task, t), t)
             ELSE LoadFrom(recs, k + 1, [acc EXCEPT !.tasks = ts1], t)

LoadTasks(pf, t) == LoadFrom(pf, 1, [tasks |-> <<>>, jobs |-> <<>>, file |-> pf], t)

\* Job.should_run
ShouldRun(job, t) == t >= job.next_run

\* run_pending runs the due jobs sorted by next_run; the sort is stable.
FirstDue(js, t, j) ==
    /\ j \in DOMAIN js
    /\ ShouldRun(js[j], t)
    /\ \A k \in DOMAIN js :
          ShouldRun(js[k], t) =>
              \/ js[k].next_run > js[j].next_run
              \/ (js[k].next_run = js[j].next_run /\ k >= j)

\* Job.run after job_func returned: the job is re-armed from the current time.
Rearm(js, j, t) == [js EXCEPT ![j].next_run = NextRun(js[j], t)]

----------------------------------------------------------------------------
(* History of the task object registered under an id *)

\* n: executions ended; errs: those ended by a handler exception; rp: those
\* that ended in PENDING; prev: last_run before the latest start.
NoHist == [n |-> 0, errs |-> 0, rp |-> 0, prev |-> None]

----------------------------------------------------------------------------
(* Initial state: TaskManager constructed with no tasks.pkl *)

NoRetry == [state |-> "idle"]

NoLimiter == [state |-> "unwrapped"]

\* the disk works, the scheduler thread started by TaskManager.__init__ is the
\* only one, and no wrapped function is being called
EnvIdle ==
    /\ disk = "ok"
    /\ is_running = TRUE
    /\ old_exec = NoExec
    /\ retry = NoRetry
    /\ rate_limit = NoLimiter

BatchIdle ==
    /\ batch = [kind |-> "none", n |-> 0, state |-> "idle", returned |-> 0]
    /\ items = <<>>
    /\ db = <<>>
    /\ semaphore = 0
    /\ max_concurrent = 0

SchedInit ==
    /\ BatchIdle
    /\ now = 0
    /\ tasks = <<>>
    /\ persist_file = <<>>
    /\ jobs = <<>>
    /\ running_tasks = {}
    /\ exec = NoExec
    /\ sched_alive = TRUE
    /\ api = NoCall
    /\ ret = NoRet
    /\ hist = [i \in TaskIds |-> NoHist]
    /\ calls = [adds |-> 0, restarts |-> 0]
    /\ submits = {1} \X IntervalShapes
    /\ EnvIdle

----------------------------------------------------------------------------
(* API calls, made from threads other than the scheduler thread *)

\* The execution in flight loses its task object's place in the registry:
\* it keeps the object it fetched at its start.
Detach(e, id, cancel) ==
    IF e # NoExec /\ e.id = id
    THEN [e EXCEPT !.task = IF e.attached THEN Get(tasks, id) ELSE e.task,
                   !.attached = FALSE,
                   !.cancelled = e.cancelled \/ cancel]
    ELSE e

\* add_task(task)
AddTask(id, sh) ==
    /\ api = NoCall
    /\ calls.adds < MaxAdds
    /\ calls' = [calls EXCEPT !.adds = @ + 1]
    /\ LET task == ScheduledTask(id, sh, now)
           ts1 == Put(tasks, task)
           r == ScheduleTask(ts1, jobs, WriteTasks(persist_file, ts1), task, now)
       IN  /\ tasks' = r.tasks
           /\ jobs' = r.jobs
           /\ persist_file' = r.file
    /\ exec' = Detach(exec, id, FALSE)
    /\ old_exec' = Detach(old_exec, id, FALSE)
    /\ hist' = [hist EXCEPT ![id] = NoHist]
    /\ ret' = [op |-> "add_task", id |-> id]
    /\ UNCHANGED <<now, running_tasks, sched_alive, api, submits, disk, is_running, retry,
                   rate_limit,
                   batchVars>>

\* DELETE /tasks/{task_id}: the status code for what cancel_task gave.
CancelTaskHttp(outcome) ==
    CASE outcome = "True" -> 200
      [] outcome = "False" -> 404
      [] OTHER -> 500

RemoveRet(id, outcome) ==
    [op |-> "remove_task", id |-> id, val |-> outcome, http |-> CancelTaskHttp(outcome)]

\* remove_task(task_id) on an id that has no entry in running_tasks.
RemoveTask(id) ==
    /\ api = NoCall
    /\ id \notin running_tasks
    /\ IF Has(tasks, id)
       THEN /\ exec' = Detach(exec, id, FALSE)
            /\ old_exec' = Detach(old_exec, id, FALSE)
            /\ tasks' = Del(tasks, id)
            /\ persist_file' = WriteTasks(persist_file, tasks')
            /\ ret' = RemoveRet(id, "True")
       ELSE /\ ret' = RemoveRet(id, "False")
            /\ UNCHANGED <<exec, old_exec, tasks, persist_file>>
    /\ hist' = [hist EXCEPT ![id] = NoHist]
    /\ UNCHANGED <<now, jobs, running_tasks, sched_alive, api, calls, submits, disk,
                   is_running, retry, rate_limit, batchVars>>

\* remove_task(task_id), up to `if task_id in self.running_tasks` finding the
\* id there.  Nothing is locked: the scheduler thread runs on.
RemoveTaskBegin(id) ==
    /\ api = NoCall
    /\ Has(tasks, id)
    /\ id \in running_tasks
    /\ api' = [op |-> "remove_task", id |-> id]
    /\ ret' = NoRet
    /\ UNCHANGED <<now, tasks, persist_file, jobs, running_tasks, exec, sched_alive,
                   hist, calls, submits, envVars, batchVars>>

\* The rest of remove_task: self.running_tasks[task_id].cancel(), the two
\* dels and the save.  When the wrapper's finally has deleted the entry in
\* between, the lookup raises KeyError and remove_task is left there.
RemoveTaskFinish ==
    /\ api # NoCall
    /\ IF api.id \in running_tasks
       THEN /\ running_tasks' = running_tasks \ {api.id}
            /\ exec' = Detach(exec, api.id, TRUE)
            /\ old_exec' = Detach(old_exec, api.id, FALSE)
            /\ tasks' = Del(tasks, api.id)
            /\ persist_file' = WriteTasks(persist_file, tasks')
            /\ hist' = [hist EXCEPT ![api.id] = NoHist]
            /\ ret' = RemoveRet(api.id, "True")
       ELSE /\ ret' = RemoveRet(api.id, "KeyError")
            /\ UNCHANGED <<running_tasks, exec, old_exec, tasks, persist_file, hist>>
    /\ api' = NoCall
    /\ UNCHANGED <<now, jobs, sched_alive, calls, submits, disk, is_running, retry, rate_limit,
                   batchVars>>

\* list_tasks: sorted(..., key=priority.value, reverse=True) is stable, so
\* tasks of equal priority stay in registry order.
RECURSIVE SortedByPriority(_)
SortedByPriority(ts) ==
    IF Len(ts) <= 1 THEN ts
    ELSE LET x == ts[Len(ts)]
             rest == SortedByPriority(SubSeq(ts, 1, Len(ts) - 1))
             ahead == SelectSeq(rest, LAMBDA r :
                          PriorityValue(r.priority) >= PriorityValue(x.priority))
             behind == SelectSeq(rest, LAMBDA r :
                          PriorityValue(r.priority) < PriorityValue(x.priority))
         IN  ahead \o <<x>> \o behind

\* list_tasks called without a status
NoFilter == "none"

ListTasks(ts, status) ==
    SortedByPriority(IF status = NoFilter THEN ts
                     ELSE SelectSeq(ts, LAMBDA r : r.status = status))

\* TaskManager.get_task_status
GetTaskStatus(ts, id) ==
    IF Has(ts, id)
    THEN LET t == Get(ts, id)
         IN  [id |-> t.id, status |-> StatusValue(t.status),
              priority |-> PriorityValue(t.priority), created_at |-> t.created_at,
              last_run |-> t.last_run, next_run |-> t.next_run,
              run_count |-> t.run_count, max_runs |-> t.max_runs,
              result |-> t.result, error |-> t.error]
    ELSE NoTask

----------------------------------------------------------------------------
(* The scheduler thread *)

\* _execute_task_wrapper on an id that is not registered: returns at once.
FireUnknown(j) ==
    /\ sched_alive /\ exec = NoExec
    /\ FirstDue(jobs, now, j)
    /\ ~Has(tasks, jobs[j].tag)
    /\ jobs' = Rearm(jobs, j, now)
    /\ ret' = NoRet
    /\ UNCHANGED <<now, tasks, persist_file, running_tasks, exec, sched_alive, api, hist,
                   calls, submits, envVars, batchVars>>

\* `task.max_runs and task.run_count >= task.max_runs`
MaxRunsReached(t) == t.max_runs # None /\ t.max_runs # 0 /\ t.run_count >= t.max_runs

\* _execute_task_wrapper on a task whose run cap is reached.
FireMaxRuns(j) ==
    /\ sched_alive /\ exec = NoExec
    /\ FirstDue(jobs, now, j)
    /\ Has(tasks, jobs[j].tag)
    /\ LET t == Get(tasks, jobs[j].tag)
       IN  /\ MaxRunsReached(t)
           /\ tasks' = Put(tasks, [t EXCEPT !.status = "COMPLETED"])
    /\ persist_file' = WriteTasks(persist_file, tasks')
    /\ jobs' = Rearm(jobs, j, now)
    /\ ret' = NoRet
    /\ UNCHANGED <<now, running_tasks, exec, sched_alive, api, hist, calls, submits, envVars, batchVars>>

\* _execute_task_wrapper up to the first await of _execute_task: the task is
\* marked running and saved, and the handler is entered.
ExecStart(j) ==
    /\ sched_alive /\ exec = NoExec
    /\ FirstDue(jobs, now, j)
    /\ Has(tasks, jobs[j].tag)
    /\ LET t == Get(tasks, jobs[j].tag)
       IN  /\ ~MaxRunsReached(t)
           /\ tasks' = Put(tasks, [t EXCEPT !.status = "RUNNING", !.last_run = now])
           /\ hist' = [hist EXCEPT ![t.id].prev = t.last_run]
           /\ running_tasks' = running_tasks \cup {t.id}
           /\ exec' = [id |-> t.id, job |-> j, started |-> now, attached |-> TRUE,
                       cancelled |-> FALSE, task |-> NoTask]
    /\ persist_file' = WriteTasks(persist_file, tasks')
    /\ ret' = NoRet
    /\ UNCHANGED <<now, jobs, sched_alive, api, calls, submits, envVars, batchVars>>

\* The task object the execution in flight works on.
ExecTask == IF exec.attached THEN Get(tasks, exec.id) ELSE exec.task

\* the budget test one retry short
RetryAllowedOffByOne(t) == t.retry_count < t.max_retries

\* `task.retry_count <= task.max_retries`, after the increment
RetryAllowed(t) == t.retry_count <= t.max_retries

\* The branches of _execute_task after the handler: what each does to the task.
\* the success branch without the reset of retry_count
OnSuccessNoReset(t, result) ==
    [t EXCEPT !.result = result, !.status = "COMPLETED", !.run_count = t.run_count + 1]

OnSuccess(t, result) ==
    [t EXCEPT !.result = result, !.status = "COMPLETED",
              !.run_count = t.run_count + 1, !.retry_count = 0]

OnTimeout(t) == [t EXCEPT !.error = "timed out", !.status = "FAILED"]

OnException(t) ==
    LET t1 == [t EXCEPT !.error = "error", !.retry_count = t.retry_count + 1]
    IN  [t1 EXCEPT !.status = IF RetryAllowed(t1) THEN "PENDING" ELSE "FAILED"]

\* wait_for raises TimeoutError when the timeout elapses while it is waiting.
\* It can be waiting only for a handler that yields to the event loop.
TimesOut(t, elapsed) == t.function \in YieldingFns /\ elapsed >= t.timeout

\* The outcomes the handler and wait_for can produce after `elapsed`.  The
\* bulk handlers return {"urls_analyzed": len(results), ...} whatever the
\* number of results: "empty" is their return with no result at all.
Outcomes(t, elapsed) ==
    IF t.function \notin task_functions THEN {"exception"}
    ELSE IF TimesOut(t, elapsed) THEN {"timeout"}
    ELSE IF t.function \in YieldingFns THEN {"success", "empty", "exception"}
    ELSE {"success", "exception"}

\* what the handler returned
HandlerResult(o) == IF o = "empty" THEN "zero" ELSE "ok"

Outcome(t, o) ==
    CASE o \in {"success", "empty"} -> OnSuccess(t, HandlerResult(o))
      [] o = "timeout" -> OnTimeout(t)
      [] o = "exception" -> OnException(t)

\* The rest of _execute_task and of the wrapper: the handler's outcome is
\* recorded in the task object, the registry is saved, the job is re-armed;
\* back in _run_scheduler, the thread goes on while is_running.
ExecEnd(o) ==
    /\ exec # NoExec
    /\ o \in Outcomes(ExecTask, now - exec.started)
    /\ LET t == ExecTask
           t1 == Outcome(t, o)
       IN  IF exec.attached
           THEN /\ tasks' = Put(tasks, t1)
                /\ hist' = [hist EXCEPT ![t.id] =
                              [@ EXCEPT !.n = @ + 1,
                                        !.errs = IF o = "exception" THEN @ + 1 ELSE @,
                                        !.rp = IF t1.status = "PENDING" THEN @ + 1 ELSE @]]
           ELSE UNCHANGED <<tasks, hist>>
    /\ persist_file' = WriteTasks(persist_file, tasks')
    /\ running_tasks' = running_tasks \ {exec.id}
    /\ jobs' = Rearm(jobs, exec.job, now)
    /\ exec' = NoExec
    /\ sched_alive' = is_running
    /\ ret' = NoRet
    /\ UNCHANGED <<now, api, calls, submits, envVars, batchVars>>

\* remove_task cancelled the asyncio task: CancelledError is raised at the
\* await, passes `except Exception` in _execute_task, the wrapper and
\* _run_scheduler, and ends the scheduler thread.
ExecCancelled ==
    /\ exec # NoExec
    /\ exec.cancelled
    /\ persist_file' = WriteTasks(persist_file, tasks)
    /\ running_tasks' = running_tasks \ {exec.id}
    /\ exec' = NoExec
    /\ sched_alive' = FALSE
    /\ ret' = NoRet
    /\ UNCHANGED <<now, tasks, jobs, api, hist, calls, submits, envVars, batchVars>>

\* time passes
Tick ==
    /\ now < MaxTime
    /\ now' = now + 1
    /\ ret' = NoRet
    /\ UNCHANGED <<tasks, persist_file, jobs, running_tasks, exec, sched_alive, api, hist,
                   calls, submits, envVars, batchVars>>

\* The process dies and a new one constructs TaskManager over the same file:
\* TaskScheduler.__init__ (with _load_tasks), then start_scheduler.
Restart ==
    /\ calls.restarts < MaxRestarts
    /\ calls' = [calls EXCEPT !.restarts = @ + 1]
    /\ LET r == LoadTasks(persist_file, now)
       IN  /\ tasks' = r.tasks
           /\ jobs' = r.jobs
           /\ persist_file' = r.file
    /\ running_tasks' = {}
    /\ exec' = NoExec
    /\ sched_alive' = TRUE
    /\ api' = NoCall
    /\ is_running' = TRUE
    /\ old_exec' = NoExec
    /\ ret' = [op |-> "restart"]
    /\ UNCHANGED <<now, hist, submits, disk, retry, rate_limit, batchVars>>

SchedNext ==
    \/ \E s \in submits : AddTask(s[1], s[2])
    \/ \E s \in submits : RemoveTask(s[1])
    \/ \E s \in submits : RemoveTaskBegin(s[1])
    \/ RemoveTaskFinish
    \/ \E j \in DOMAIN jobs : FireUnknown(j)
    \/ \E j \in DOMAIN jobs : FireMaxRuns(j)
    \/ \E j \in DOMAIN jobs : ExecStart(j)
    \/ \E o \in {"success", "exception", "timeout"} : ExecEnd(o)
    \/ ExecCancelled
    \/ Tick
    \/ Restart

Spec == SchedInit /\ [][SchedNext]_vars

----------------------------------------------------------------------------
(* stop_scheduler and start_scheduler called on a live TaskScheduler *)

\* task.cancel() on the asyncio task of an execution in flight
Cancel(e) == IF e # NoExec /\ e.id \in running_tasks THEN [e EXCEPT !.cancelled = TRUE] ELSE e

\* stop_scheduler: clears is_running, cancels and forgets the running tasks,
\* and joins the scheduler thread for at most 5 seconds.  A thread that is
\* between two run_pending calls leaves its loop; a thread inside an
\* execution is still inside it when the join gives up.
StopScheduler ==
    /\ api = NoCall
    /\ is_running
    /\ is_running' = FALSE
    /\ exec' = Cancel(exec)
    /\ old_exec' = Cancel(old_exec)
    /\ running_tasks' = {}
    /\ sched_alive' = (exec # NoExec)
    /\ ret' = NoRet
    /\ UNCHANGED <<now, tasks, persist_file, jobs, api, hist, calls, submits, disk, retry,
                   rate_limit,
                   batchVars>>

\* start_scheduler: returns at once while is_running; else sets it and starts
\* a new scheduler thread.  A thread that was stopped while inside an
\* execution is still there: the model follows it to the end of that
\* execution (at most one such thread at a time).
StartScheduler ==
    /\ api = NoCall
    /\ ~is_running
    /\ exec # NoExec => old_exec = NoExec
    /\ is_running' = TRUE
    /\ sched_alive' = TRUE
    /\ old_exec' = IF exec # NoExec THEN exec ELSE old_exec
    /\ exec' = NoExec
    /\ ret' = NoRet
    /\ UNCHANGED <<now, tasks, persist_file, jobs, running_tasks, api, hist, calls, submits,
                   disk, retry, rate_limit, batchVars>>

\* The task object the execution of the stopped thread works on.
OldExecTask == IF old_exec.attached THEN Get(tasks, old_exec.id) ELSE old_exec.task

\* The rest of _execute_task and of the wrapper, in the stopped thread.
OldExecEnd(o) ==
    /\ old_exec # NoExec
    /\ o \in Outcomes(OldExecTask, now - old_exec.started)
    /\ LET t == OldExecTask
           t1 == Outcome(t, o)
       IN  IF old_exec.attached
           THEN /\ tasks' = Put(tasks, t1)
                /\ hist' = [hist EXCEPT ![t.id] =
                              [@ EXCEPT !.n = @ + 1,
                                        !.errs = IF o = "exception" THEN @ + 1 ELSE @,
                                        !.rp = IF t1.status = "PENDING" THEN @ + 1 ELSE @]]
           ELSE UNCHANGED <<tasks, hist>>
    /\ persist_file' = WriteTasks(persist_file, tasks')
    /\ running_tasks' = running_tasks \ {old_exec.id}
    /\ jobs' = Rearm(jobs, old_exec.job, now)
    /\ old_exec' = NoExec
    /\ ret' = NoRet
    /\ UNCHANGED <<now, exec, sched_alive, api, calls, submits, disk, is_running, retry,
                   rate_limit,
                   batchVars>>

\* CancelledError ends the execution of the stopped thread, and the thread.
OldExecCancelled ==
    /\ old_exec # NoExec
    /\ old_exec.cancelled
    /\ persist_file' = WriteTasks(persist_file, tasks)
    /\ running_tasks' = running_tasks \ {old_exec.id}
    /\ old_exec' = NoExec
    /\ ret' = NoRet
    /\ UNCHANGED <<now, tasks, jobs, exec, sched_alive, api, hist, calls, submits, disk,
                   is_running, retry, rate_limit, batchVars>>

StopShapes == {sh \in IntervalShapes : sh.function \in task_functions /\ sh.max_retries = MaxRetries}

StopInit ==
    /\ BatchIdle
    /\ EnvIdle
    /\ now = 0
    /\ tasks = <<>>
    /\ persist_file = <<>>
    /\ jobs = <<>>
    /\ running_tasks = {}
    /\ exec = NoExec
    /\ sched_alive = TRUE
    /\ api = NoCall
    /\ ret = NoRet
    /\ hist = [i \in TaskIds |-> NoHist]
    /\ calls = [adds |-> 0, restarts |-> 0]
    /\ submits = {1} \X StopShapes

\* submissions, the scheduler threads and the two calls; no removal, no
\* process restart
StopNext ==
    \/ \E s \in submits : AddTask(s[1], s[2])
    \/ \E j \in DOMAIN jobs : FireMaxRuns(j)
    \/ \E j \in DOMAIN jobs : ExecStart(j)
    \/ \E o \in {"success", "exception", "timeout"} : ExecEnd(o)
    \/ ExecCancelled
    \/ Tick
    \/ StopScheduler
    \/ StartScheduler
    \/ \E o \in {"success", "exception", "timeout"} : OldExecEnd(o)
    \/ OldExecCancelled

StopSpec == StopInit /\ [][StopNext]_vars

----------------------------------------------------------------------------
(* Properties of the scheduler *)

\* An execution of the task registered under i ends in this step.
Ended(i) == hist'[i].n = hist[i].n + 1

\* C1: for a task every execution of which ended in a handler exception, the
\* n-th execution ends in PENDING with retry_count = n while n <= max_retries,
\* the (max_retries+1)-th ends in FAILED, and the task has gone from RUNNING
\* to PENDING at most max_retries times.
C1_RetryBudget ==
    [][\A i \in TaskIds :
          (Ended(i) /\ hist'[i].errs = hist'[i].n) =>
              LET t == Get(tasks', i)
                  n == hist'[i].n
              IN  /\ n <= t.max_retries =>
                        /\ t.status = "PENDING"
                        /\ t.retry_count = n
                        /\ hist'[i].rp = n
                  /\ n = t.max_retries + 1 => t.status = "FAILED"
                  /\ hist'[i].rp <= t.max_retries]_vars

\* C1 witness: a task with a retry budget of at least one has failed
\* max_retries + 1 times in a row and is FAILED after max_retries retries.
C1_Witness ==
    \E i \in TaskIds :
        /\ Has(tasks, i)
        /\ Get(tasks, i).max_retries >= 1
        /\ hist[i].n = Get(tasks, i).max_retries + 1
        /\ hist[i].errs = hist[i].n
        /\ hist[i].rp = Get(tasks, i).max_retries
        /\ Get(tasks, i).status = "FAILED"

\* C4: remove_task on a registered id returns true and leaves the id out of
\* get_task_status and list_tasks, also with its handler in flight; on an
\* unknown id it returns false, which the API answers with 404.
C4_CancelRemoves ==
    [][ret'.op = "remove_task" =>
          IF Has(tasks, ret'.id)
          THEN /\ ret'.val = "True"
               /\ GetTaskStatus(tasks', ret'.id) = NoTask
               /\ \A k \in DOMAIN ListTasks(tasks', NoFilter) :
                      ListTasks(tasks', NoFilter)[k].id # ret'.id
          ELSE ret'.val = "False" /\ ret'.http = 404]_vars

\* The triggers armed for a task id: what fires, and when next.
Armed(js, i) ==
    {[unit |-> js[k].unit, interval |-> js[k].interval, at |-> js[k].at,
      next_run |-> js[k].next_run] : k \in {k \in DOMAIN js : js[k].tag = i}}

\* C5: a restart before a pending task ever ran gives the same task, all
\* fields equal, armed with the same trigger and the same next due time.
C5_RestartPreservesDue ==
    [][ret'.op = "restart" =>
          \A i \in TaskIds :
              (Has(tasks, i) /\ Get(tasks, i).status = "PENDING"
                             /\ Get(tasks, i).last_run = None) =>
                  /\ Has(tasks', i)
                  /\ Get(tasks', i) = Get(tasks, i)
                  /\ Armed(jobs', i) = Armed(jobs, i)]_vars

\* C6: two consecutive last_run values of an interval task are at least its
\* period apart.
C6_IntervalSpacing ==
    \A i \in TaskIds :
        (Has(tasks, i) /\ Get(tasks, i).schedule_type = "interval"
                       /\ hist[i].prev # None) =>
            Get(tasks, i).last_run - hist[i].prev >= Get(tasks, i).schedule_value

\* C9: a task that is FAILED is not changed in place by a later trigger fire
\* and its handler is not invoked again (stated for a task that was submitted
\* once and stays registered).
C9_FailedIsTerminal ==
    [][\A i \in TaskIds :
          (Has(tasks, i) /\ Get(tasks, i).status = "FAILED"
                         /\ Has(tasks', i) /\ calls = [adds |-> 1, restarts |-> 0]
                         /\ calls' = calls) =>
              /\ Get(tasks', i).status = "FAILED"
              /\ exec' = NoExec]_vars

\* C10: an execution whose handler had not returned when the timeout
\* elapsed ends FAILED with the error set.
C10_TimeoutForcesFailed ==
    [][\A i \in TaskIds :
          (Ended(i) /\ now - exec.started >= Get(tasks, i).timeout) =>
              /\ Get(tasks', i).status = "FAILED"
              /\ Get(tasks', i).error # "none"]_vars

----------------------------------------------------------------------------
(* The store: get_cached_* and save_* of DatabaseManager *)

ContentTtl == 1     \* default max_age_days of get_cached_content_data
KeywordTtl == 7     \* default max_age_days of get_cached_keyword_data
BrowserCap == 3     \* asyncio.Semaphore(3) of analyze_multiple_keywords

\* items of the largest batch: one more than the permits of the browser semaphore
NumItems == BrowserCap + 1

\* the keys (urls or keywords) of a batch; item i carries KeyList[i], cyclically
KeyList == <<"k1", "k2">>
Keys == {KeyList[i] : i \in DOMAIN KeyList}
ItemKey(i) == KeyList[((i - 1) % Len(KeyList)) + 1]

\* fetchone() found no row
NoRow == [key |-> "none", timestamp |-> 0, src |-> 0]
\* a row: its key, its timestamp column, and the item that wrote it (0: a row
\* that was in the table before the batch)
Row(k, ts, i) == [key |-> k, timestamp |-> ts, src |-> i]

\* timedelta.days: whole days, rounded towards minus infinity
Days(delta) == delta \div DayLen

FreshInclusive(row, max_age_days, t) == Days(t - row.timestamp) <= max_age_days

\* (datetime.now() - datetime.fromisoformat(timestamp)).days < max_age_days
Fresh(row, max_age_days, t) == Days(t - row.timestamp) < max_age_days

GetCachedNever(table, k, max_age_days, t) == NoRow

GetCached(table, k, max_age_days, t) ==
    IF table[k] # NoRow /\ Fresh(table[k], max_age_days, t) THEN table[k] ELSE NoRow

get_cached_keyword_data(table, keyword, max_age_days, t) ==
    GetCached(table, keyword, max_age_days, t)

get_cached_content_data(table, url, max_age_days, t) ==
    GetCached(table, url, max_age_days, t)

\* INSERT OR REPLACE keyed by the UNIQUE url / keyword column
SaveData(table, row) == [table EXCEPT ![row.key] = row]

\* the max_age_days a batch of this kind asks for (it passes none: the default)
DefaultTtl(kind) == IF kind = "url" THEN ContentTtl ELSE KeywordTtl

\* ages of the rows a table holds when a batch of this kind starts: just
\* written, one clock unit before the default TTL runs out, and just run out
InitAges(kind) == {0, DefaultTtl(kind) * DayLen - 1, DefaultTtl(kind) * DayLen}

InitTables(kind) ==
    [Keys -> {NoRow}] \cup
    {[k \in Keys |-> IF k = KeyList[1] THEN Row(k, 0 - a, 0) ELSE r] :
        a \in InitAges(kind), r \in {NoRow, Row(KeyList[2], 0, 0)}}

\* the max_age_days arguments a direct caller passes
MaxAgeArgs == {0, ContentTtl, KeywordTtl}

----------------------------------------------------------------------------
(* analyze_multiple_urls and analyze_multiple_keywords *)

Items == 1..NumItems

\* the value an item's coroutine returned
Pending == [kind |-> "pending", row |-> NoRow]
ReturnedNone == [kind |-> "None", row |-> NoRow]
Returned(row) == [kind |-> "record", row |-> row]

\* The coroutine of item i.  pc is where it stands; cache is the outcome of
\* its cache lookup; env tells whether the fetch and the parse it was given
\* succeeded ("ok") or one of them failed ("fail"); fetched is set once it
\* has gone to the network (session.get, or a browser context); saved, once
\* it has written to the store; stamp is the timestamp of the record it built.
NewItem(i) ==
    [key |-> ItemKey(i), pc |-> "start", cache |-> "unchecked", env |-> "pending",
     fetched |-> FALSE, saved |-> FALSE, context |-> "none", executor |-> "none",
     stamp |-> 0, res |-> Pending]

\* the permits of the semaphore the items of a batch share
Cap(kind, mc) == IF kind = "url" THEN mc ELSE BrowserCap

BatchInit ==
    /\ now = 0
    /\ ret = NoRet
    /\ tasks = <<>>
    /\ persist_file = <<>>
    /\ jobs = <<>>
    /\ running_tasks = {}
    /\ exec = NoExec
    /\ sched_alive = TRUE
    /\ api = NoCall
    /\ hist = [i \in TaskIds |-> NoHist]
    /\ calls = [adds |-> 0, restarts |-> 0]
    /\ submits = {}
    /\ EnvIdle
    /\ \E kind \in {"url", "kw"} :
          /\ \/ /\ batch = [kind |-> kind, n |-> NumItems, state |-> "running",
                            returned |-> 0]
                /\ db = [k \in Keys |-> NoRow]
             \/ /\ batch = [kind |-> kind, n |-> Len(KeyList), state |-> "running",
                            returned |-> 0]
                /\ db \in InitTables(kind)
          /\ max_concurrent \in (IF kind = "url" THEN 1..MaxConcurrent ELSE {0})
          /\ semaphore = Cap(kind, max_concurrent)
    /\ items = [i \in 1..batch.n |-> NewItem(i)]

At(i, kind, pc) ==
    /\ batch.kind = kind
    /\ batch.state = "running"
    /\ i \in DOMAIN items
    /\ items[i].pc = pc

\* the item returns v: nothing of it is left in flight
Done(it, v) == [it EXCEPT !.pc = "done", !.res = v]

CanAcquireAlways(sem) == TRUE

\* Semaphore.acquire returns at once only while a permit is free
CanAcquire(sem) == sem > 0

\* loop.run_in_executor(executor, ...): submit() on an executor that was shut
\* down raises RuntimeError
RunInExecutor(executor) == IF executor = "shutdown" THEN "RuntimeError" ELSE "ok"

\* _analyze_single_url up to client.get: the cache lookup
UrlCheckCache(i) ==
    /\ At(i, "url", "start")
    /\ LET cached_data == get_cached_content_data(db, items[i].key, ContentTtl, now)
       IN  items' = [items EXCEPT ![i] =
                        IF cached_data # NoRow
                        THEN Done([@ EXCEPT !.cache = "hit"], Returned(cached_data))
                        ELSE [@ EXCEPT !.cache = "miss", !.pc = "get"]]
    /\ UNCHANGED <<now, ret, registryVars, batch, db, semaphore, max_concurrent>>

\* AsyncHTTPClient.get: async with self.semaphore
HttpAcquire(i) ==
    /\ At(i, "url", "get")
    /\ CanAcquire(semaphore)
    /\ semaphore' = semaphore - 1
    /\ items' = [items EXCEPT ![i].pc = "holding"]
    /\ UNCHANGED <<now, ret, registryVars, batch, db, max_concurrent>>

\* AsyncHTTPClient.get: session.get answers, and the permit is released
HttpGet(i, response) ==
    /\ At(i, "url", "holding")
    /\ semaphore' = semaphore + 1
    /\ items' = [items EXCEPT ![i] =
                    IF response = "200"
                    THEN [@ EXCEPT !.fetched = TRUE, !.pc = "text"]
                    ELSE Done([@ EXCEPT !.fetched = TRUE, !.env = "fail"], ReturnedNone)]
    /\ UNCHANGED <<now, ret, registryVars, batch, db, max_concurrent>>

\* response.text(), then _process_content_sync inside `with ThreadPoolExecutor()`
UrlProcess(i, out) ==
    /\ At(i, "url", "text")
    /\ items' = [items EXCEPT ![i] =
                    IF out = "ok"
                    THEN [@ EXCEPT !.env = "ok", !.executor = "shutdown", !.stamp = now,
                                   !.pc = "save"]
                    ELSE Done([@ EXCEPT !.env = "fail"], ReturnedNone)]
    /\ UNCHANGED <<now, ret, registryVars, batch, db, semaphore, max_concurrent>>

\* run_in_executor(executor, save_content_data, content_data); return content_data
UrlSave(i) ==
    /\ At(i, "url", "save")
    /\ IF RunInExecutor(items[i].executor) = "RuntimeError"
       THEN /\ items' = [items EXCEPT ![i] = Done(@, ReturnedNone)]
            /\ db' = db
       ELSE LET content_data == Row(items[i].key, items[i].stamp, i)
            IN  /\ db' = SaveData(db, content_data)
                /\ items' = [items EXCEPT ![i] =
                                Done([@ EXCEPT !.saved = TRUE], Returned(content_data))]
    /\ UNCHANGED <<now, ret, registryVars, batch, semaphore, max_concurrent>>

\* _analyze_single_keyword_with_semaphore: async with semaphore
KwAcquire(i) ==
    /\ At(i, "kw", "start")
    /\ CanAcquire(semaphore)
    /\ semaphore' = semaphore - 1
    /\ items' = [items EXCEPT ![i].pc = "check"]
    /\ UNCHANGED <<now, ret, registryVars, batch, db, max_concurrent>>

\* _analyze_single_keyword up to get_context: the cache lookup.  A hit
\* returns, which leaves the `async with semaphore` block.
KwCheckCache(i) ==
    /\ At(i, "kw", "check")
    /\ LET cached_data == get_cached_keyword_data(db, items[i].key, KeywordTtl, now)
       IN  IF cached_data # NoRow
           THEN /\ items' = [items EXCEPT ![i] =
                                Done([@ EXCEPT !.cache = "hit"], Returned(cached_data))]
                /\ semaphore' = semaphore + 1
           ELSE /\ items' = [items EXCEPT ![i] =
                                [@ EXCEPT !.cache = "miss", !.pc = "get_context"]]
                /\ semaphore' = semaphore
    /\ UNCHANGED <<now, ret, registryVars, batch, db, max_concurrent>>

\* browser_manager.get_context(): a context, or None when new_context raised
KwGetContext(i, ok) ==
    /\ At(i, "kw", "get_context")
    /\ IF ok
       THEN /\ items' = [items EXCEPT ![i] =
                            [@ EXCEPT !.fetched = TRUE, !.context = "open", !.pc = "page"]]
            /\ semaphore' = semaphore
       ELSE /\ items' = [items EXCEPT ![i] =
                            Done([@ EXCEPT !.fetched = TRUE, !.env = "fail"], ReturnedNone)]
            /\ semaphore' = semaphore + 1
    /\ UNCHANGED <<now, ret, registryVars, batch, db, max_concurrent>>

\* new_page, goto and the extraction, up to the KeywordData built; when one
\* of them raises, the finally clause closes the context
KwPage(i, ok) ==
    /\ At(i, "kw", "page")
    /\ IF ok
       THEN /\ items' = [items EXCEPT ![i] =
                            [@ EXCEPT !.env = "ok", !.executor = "open", !.stamp = now,
                                      !.pc = "save"]]
            /\ semaphore' = semaphore
       ELSE /\ items' = [items EXCEPT ![i] =
                            Done([@ EXCEPT !.env = "fail", !.context = "closed"],
                                 ReturnedNone)]
            /\ semaphore' = semaphore + 1
    /\ UNCHANGED <<now, ret, registryVars, batch, db, max_concurrent>>

\* run_in_executor(executor, save_keyword_data, keyword_data) inside the
\* `with ThreadPoolExecutor()` block; return keyword_data; finally
\* context.close().  ok is FALSE when save_keyword_data raises.
KwSave(i, ok) ==
    /\ At(i, "kw", "save")
    /\ LET keyword_data == Row(items[i].key, items[i].stamp, i)
       IN  IF RunInExecutor(items[i].executor) = "ok" /\ ok
           THEN /\ db' = SaveData(db, keyword_data)
                /\ items' = [items EXCEPT ![i] =
                                Done([@ EXCEPT !.saved = TRUE, !.executor = "shutdown",
                                               !.context = "closed"],
                                     Returned(keyword_data))]
           ELSE /\ db' = db
                /\ items' = [items EXCEPT ![i] =
                                Done([@ EXCEPT !.env = "fail", !.executor = "shutdown",
                                               !.context = "closed"],
                                     ReturnedNone)]
    /\ semaphore' = semaphore + 1
    /\ UNCHANGED <<now, ret, registryVars, batch, max_concurrent>>

\* valid_results = [r for r in results if isinstance(r, ContentData / KeywordData)]
ValidResults(its) == {i \in DOMAIN its : its[i].res.kind = "record"}

\* asyncio.gather(*tasks, return_exceptions=True) is over: the bulk call returns
Gather ==
    /\ batch.state = "running"
    /\ \A i \in DOMAIN items : items[i].pc = "done"
    /\ batch' = [batch EXCEPT !.state = "returned",
                              !.returned = Cardinality(ValidResults(items))]
    /\ UNCHANGED <<now, ret, registryVars, items, db, semaphore, max_concurrent>>

\* a direct call of get_cached_content_data / get_cached_keyword_data on the
\* table of the batch, after the batch
Query(k, max_age_days) ==
    /\ batch.state = "returned"
    /\ ret' = [op |-> "get_cached", key |-> k, max_age_days |-> max_age_days,
               val |-> IF batch.kind = "url"
                       THEN get_cached_content_data(db, k, max_age_days, now)
                       ELSE get_cached_keyword_data(db, k, max_age_days, now)]
    /\ UNCHANGED <<now, registryVars, batchVars>>

BatchTick ==
    /\ now < BatchTicks
    /\ now' = now + 1
    /\ ret' = NoRet
    /\ UNCHANGED <<registryVars, batchVars>>

BatchNext ==
    \/ \E i \in Items : UrlCheckCache(i)
    \/ \E i \in Items : HttpAcquire(i)
    \/ \E i \in Items, response \in {"200", "404", "timeout"} : HttpGet(i, response)
    \/ \E i \in Items, out \in {"ok", "None", "raise"} : UrlProcess(i, out)
    \/ \E i \in Items : UrlSave(i)
    \/ \E i \in Items : KwAcquire(i)
    \/ \E i \in Items : KwCheckCache(i)
    \/ \E i \in Items, ok \in BOOLEAN : KwGetContext(i, ok)
    \/ \E i \in Items, ok \in BOOLEAN : KwPage(i, ok)
    \/ \E i \in Items, ok \in BOOLEAN : KwSave(i, ok)
    \/ Gather
    \/ \E k \in Keys, m \in MaxAgeArgs : Query(k, m)
    \/ BatchTick

BatchSpec == BatchInit /\ [][BatchNext]_vars

----------------------------------------------------------------------------
(* Properties of the batch executors and of the cache *)

\* item i holds a permit of the batch's semaphore it has not released
Holding(i) ==
    IF batch.kind = "url"
    THEN items[i].pc = "holding"
    ELSE items[i].pc \in {"check", "get_context", "page", "save"}

\* item i takes its cache lookup in this step
Checks(i) ==
    /\ batch.state = "running"
    /\ items[i].pc = (IF batch.kind = "url" THEN "start" ELSE "check")
    /\ items'[i] # items[i]

\* age, in clock units, of the row the table holds for item i's key
Age(i) == now - db[items[i].key].timestamp

\* C2: when a bulk call of N items, all of them cache misses, has returned,
\* it returned as many records as it had items whose fetch and parse
\* succeeded (N - K, K being the items given a failing fetch or parse), and
\* every one of the N items was attempted.
C2_BatchCounts ==
    (/\ batch.state = "returned"
     /\ \A i \in DOMAIN items : items[i].cache = "miss")
    => /\ batch.returned =
              batch.n - Cardinality({i \in DOMAIN items : items[i].env = "fail"})
       /\ \A i \in DOMAIN items : items[i].pc = "done" /\ items[i].fetched

\* C3: in every reachable state of a batch the items holding an unreleased
\* permit are at most the cap: max_concurrent for HTTP fetches, 3 for
\* browser keyword operations.
C3_PermitCap ==
    Cardinality({i \in DOMAIN items : Holding(i)}) <= Cap(batch.kind, max_concurrent)

\* C3 witness: a keyword batch with as many holders as the cap of 3 and a
\* further item waiting for a permit.
C3_Witness ==
    /\ batch.kind = "kw"
    /\ Cardinality({i \in DOMAIN items : Holding(i)}) = BrowserCap
    /\ \E i \in DOMAIN items : items[i].pc = "start"

\* C7: an item that looks up the cache while the table holds a row for its
\* key younger than the TTL of its type returns that row in the same step,
\* having made no fetch and opened no browser context, and leaves the table
\* as it was.
C7_CacheHitShortCircuits ==
    [][\A i \in DOMAIN items :
          (/\ Checks(i)
           /\ db[items[i].key] # NoRow
           /\ Age(i) < DefaultTtl(batch.kind) * DayLen)
          => /\ items'[i].pc = "done"
             /\ items'[i].res = Returned(db[items[i].key])
             /\ ~items'[i].fetched
             /\ ~items'[i].saved
             /\ db' = db]_vars

\* C7 witness: an item has returned the row that was in the table before the
\* batch, without a fetch.
C7_Witness ==
    \E i \in DOMAIN items :
        /\ items[i].pc = "done"
        /\ items[i].cache = "hit"
        /\ items[i].res.row = db[items[i].key]
        /\ db[items[i].key].src = 0
        /\ ~items[i].fetched

\* C8: get_cached_*(K, max_age_days) returns None when the row of K is
\* max_age_days whole days old or older and the row when it is younger; and
\* a batch item whose row is as old as the default TTL (content 1 day,
\* keyword 7 days) or older misses the cache and goes to the network.
C8_Expiry ==
    /\ [][ret'.op = "get_cached" /\ db'[ret'.key] # NoRow =>
            LET row == db'[ret'.key]
            IN  IF now' - row.timestamp >= ret'.max_age_days * DayLen
                THEN ret'.val = NoRow
                ELSE ret'.val = row]_vars
    /\ [][\A i \in DOMAIN items :
            (/\ Checks(i)
             /\ db[items[i].key] # NoRow
             /\ Age(i) >= DefaultTtl(batch.kind) * DayLen)
            => /\ items'[i].cache = "miss"
               /\ items'[i].pc = (IF batch.kind = "url" THEN "get" ELSE "get_context")]_vars
    /\ [](\A i \in DOMAIN items :
            items[i].pc = "done" /\ items[i].cache = "miss" => items[i].fetched)

\* C8 witness: a lookup with the default max_age_days answered None for a row
\* exactly max_age_days days old, and the batch item of that key had missed
\* the cache on it and gone to the network.
C8_Witness ==
    /\ ret.op = "get_cached"
    /\ ret.max_age_days = DefaultTtl(batch.kind)
    /\ db[ret.key] # NoRow
    /\ db[ret.key].src = 0
    /\ now - db[ret.key].timestamp = ret.max_age_days * DayLen
    /\ ret.val = NoRow
    /\ \E i \in DOMAIN items :
          items[i].key = ret.key /\ items[i].cache = "miss" /\ items[i].fetched

----------------------------------------------------------------------------
(* Properties of the scheduler, continued *)

\* C11: at no time are two executions of the same task id in flight.
C11_OneExecutionPerTask ==
    ~(exec # NoExec /\ old_exec # NoExec /\ exec.id = old_exec.id
                    /\ exec.attached /\ old_exec.attached)

----------------------------------------------------------------------------
(* A disk on which writing tasks.pkl can fail *)

\* the disk starts or stops failing, in one of the two ways
DiskChange(d) ==
    /\ d # disk
    /\ disk' = d
    /\ ret' = NoRet
    /\ UNCHANGED <<now, tasks, persist_file, jobs, running_tasks, exec, sched_alive, api,
                   hist, calls, submits, is_running, old_exec, retry, rate_limit, batchVars>>

DiskShapes ==
    {sh \in IntervalShapes : sh.function = "bulk_url_analysis" /\ sh.max_retries = MaxRetries}

DiskInit ==
    /\ BatchIdle
    /\ EnvIdle
    /\ now = 0
    /\ tasks = <<>>
    /\ persist_file = <<>>
    /\ jobs = <<>>
    /\ running_tasks = {}
    /\ exec = NoExec
    /\ sched_alive = TRUE
    /\ api = NoCall
    /\ ret = NoRet
    /\ hist = [i \in TaskIds |-> NoHist]
    /\ calls = [adds |-> 0, restarts |-> 0]
    /\ submits = {1} \X DiskShapes

DiskNext ==
    \/ \E s \in submits : AddTask(s[1], s[2])
    \/ \E j \in DOMAIN jobs : ExecStart(j)
    \/ \E o \in {"success", "exception", "timeout"} : ExecEnd(o)
    \/ Tick
    \/ Restart
    \/ \E d \in {"ok", "open_fails", "dump_fails"} : DiskChange(d)

DiskSpec == DiskInit /\ [][DiskNext]_vars

\* C12: add_task gives its caller an id only for a task that is in the
\* persisted registry: a failed write fails the submission.
C12_PutFailureSurfaces ==
    [][ret'.op = "add_task" =>
          /\ Has(persist_file', ret'.id)
          /\ LoadedTask(Get(persist_file', ret'.id)) = Get(tasks', ret'.id)]_vars

\* C13: add_task under an id that is already registered does not replace the
\* task registered under it.
C13_InsertKeepsExisting ==
    [][(ret'.op = "add_task" /\ Has(tasks, ret'.id)) =>
          Get(tasks', ret'.id) = Get(tasks, ret'.id)]_vars

\* C14: after a restart every task persisted as pending is registered, PENDING
\* and armed; every task persisted as running is PENDING, armed, and has one
\* more retry counted than was persisted.
C14_StartupRecovers ==
    [][ret'.op = "restart" =>
          \A k \in DOMAIN persist_file :
              LET d == persist_file[k]
              IN  /\ d.status = "pending" =>
                        /\ Has(tasks', d.id)
                        /\ Get(tasks', d.id).status = "PENDING"
                        /\ Armed(jobs', d.id) # {}
                  /\ d.status = "running" =>
                        /\ Has(tasks', d.id)
                        /\ Get(tasks', d.id).status = "PENDING"
                        /\ Armed(jobs', d.id) # {}
                        /\ Get(tasks', d.id).retry_count = d.retry_count + 1]_vars

\* C15: the scheduler thread stays inside its loop after every outcome of an
\* execution, the cancellation of the execution by remove_task included.
C15_LoopSurvives == is_running => sched_alive

----------------------------------------------------------------------------
(* Run caps, calendar triggers and empty batches *)

\* interval tasks with a run cap of 0 and of 1, and the tasks TaskManager
\* builds for once, daily and weekly triggers, with and without a run cap
RunShapes ==
    CalendarShapes
    \cup
    { [function |-> "bulk_url_analysis", schedule_type |-> "interval",
       schedule_value |-> IntervalP, priority |-> "HIGH", max_runs |-> m,
       max_retries |-> MaxRetries, timeout |-> TaskTimeout] : m \in {0, 1} }
    \cup
    { [function |-> "bulk_url_analysis", schedule_type |-> "once", schedule_value |-> 1,
       priority |-> "HIGH", max_runs |-> None, max_retries |-> MaxRetries,
       timeout |-> TaskTimeout] }

RunsInit ==
    /\ BatchIdle
    /\ EnvIdle
    /\ now = 0
    /\ tasks = <<>>
    /\ persist_file = <<>>
    /\ jobs = <<>>
    /\ running_tasks = {}
    /\ exec = NoExec
    /\ sched_alive = TRUE
    /\ api = NoCall
    /\ ret = NoRet
    /\ hist = [i \in TaskIds |-> NoHist]
    /\ calls = [adds |-> 0, restarts |-> 0]
    /\ submits = {1} \X RunShapes

RunsNext ==
    \/ \E s \in submits : AddTask(s[1], s[2])
    \/ \E j \in DOMAIN jobs : FireMaxRuns(j)
    \/ \E j \in DOMAIN jobs : ExecStart(j)
    \/ \E o \in {"success", "empty", "exception", "timeout"} : ExecEnd(o)
    \/ Tick

RunsSpec == RunsInit /\ [][RunsNext]_vars

\* C16: an execution of a bulk task leaves the task COMPLETED only if at least
\* one item of its batch succeeded; a batch with no successful item leaves it
\* PENDING with one more retry counted, or FAILED.
C16_EmptyBatchIsFailure ==
    [][\A i \in TaskIds :
          (Ended(i) /\ Get(tasks, i).function \in YieldingFns
                    /\ Get(tasks', i).status = "COMPLETED") =>
              Get(tasks', i).result # "zero"]_vars

\* C17: the number of completed runs of a task with a run cap never exceeds
\* the cap, caps of 0 and 1 included.
C17_RunCountWithinCap ==
    \A i \in TaskIds :
        (Has(tasks, i) /\ Get(tasks, i).max_runs # None) =>
            Get(tasks, i).run_count <= Get(tasks, i).max_runs

\* C18: the handler of a task with trigger once completes at most once.
C18_OnceRunsOnce ==
    \A i \in TaskIds :
        (Has(tasks, i) /\ Get(tasks, i).schedule_type = "once") =>
            Get(tasks, i).run_count <= 1

----------------------------------------------------------------------------
(* Listing a registry of two tasks *)

\* the filters list_tasks is given: none, or a TaskStatus
ListFilters == {NoFilter, "PENDING", "RUNNING", "COMPLETED"}

\* two priorities, and no retry
ListShapes ==
    {sh \in IntervalShapes :
        sh.function \in task_functions /\ (sh.priority = "LOW" \/ sh.max_retries = 0)}

\* TaskScheduler.list_tasks(status)
ListTasksCall(status) ==
    /\ api = NoCall
    /\ ret' = [op |-> "list_tasks", status |-> status, val |-> ListTasks(tasks, status)]
    /\ UNCHANGED <<now, registryVars, batchVars>>

\* The registry after task 1 was submitted at time 0; task 2 can be submitted
\* from then on, and task 1 submitted again with high priority.
ListInit ==
    /\ BatchIdle
    /\ EnvIdle
    /\ now = 0
    /\ \E sh \in ListShapes :
          LET task == ScheduledTask(1, sh, 0)
              ts1 == Put(<<>>, task)
              r == ScheduleTask(ts1, <<>>, WriteTasks(<<>>, ts1), task, 0)
          IN  /\ tasks = r.tasks
              /\ jobs = r.jobs
              /\ persist_file = r.file
    /\ running_tasks = {}
    /\ exec = NoExec
    /\ sched_alive = TRUE
    /\ api = NoCall
    /\ ret = NoRet
    /\ hist = [i \in TaskIds |-> NoHist]
    /\ calls = [adds |-> 0, restarts |-> 0]
    /\ submits = {s \in TaskIds \X ListShapes : s[1] = 1 => s[2].priority = "HIGH"}

ListNext ==
    \/ \E s \in submits : AddTask(s[1], s[2])
    \/ \E j \in DOMAIN jobs : FireMaxRuns(j)
    \/ \E j \in DOMAIN jobs : ExecStart(j)
    \/ \E o \in {"success", "exception"} : ExecEnd(o)
    \/ Tick
    \/ \E f \in ListFilters : ListTasksCall(f)

ListSpec == ListInit /\ [][ListNext]_vars

\* the tasks of the registry that a filter selects
Matching(ts, status) ==
    {ts[k].id : k \in {n \in DOMAIN ts : status = NoFilter \/ ts[n].status = status}}

\* C19: list_tasks(filter) returns each task of the registry whose status
\* matches the filter exactly once (every task without a filter), by
\* descending priority and, among equal priorities, by ascending created_at.
C19_ListOrdered ==
    ret.op = "list_tasks" =>
        LET out == ret.val
        IN  /\ {out[k].id : k \in DOMAIN out} = Matching(tasks, ret.status)
            /\ Len(out) = Cardinality(Matching(tasks, ret.status))
            /\ \A k \in DOMAIN out : out[k] = Get(tasks, out[k].id)
            /\ \A k, l \in DOMAIN out :
                  k < l =>
                     \/ PriorityValue(out[k].priority) > PriorityValue(out[l].priority)
                     \/ /\ out[k].priority = out[l].priority
                        /\ out[k].created_at <= out[l].created_at

----------------------------------------------------------------------------
(* utils.retry_on_failure *)

\* largest max_retries a function is wrapped with
MaxM == 2

\* the delay and backoff arguments, in whole seconds
Delays == {0, 1}

Backoffs == {1, 2}

\* what one call of the wrapped function does: it returns a value, or raises
\* an exception that is, or is not, an instance of `exceptions`
FuncOutcomes == {"a", "b", "listed", "unlisted"}

Raises(o) == o \in {"listed", "unlisted"}

\* `except exceptions as e`
Caught(o) == o = "listed"

\* the give-up test one attempt early
LastAttemptEarly(r) == r.attempt + 1 = r.max_retries

\* `if attempt == max_retries`
LastAttempt(r) == r.attempt = r.max_retries

\* attempt in range(max_retries + 1)
InRange(r) == r.attempt < r.max_retries + 1

\* the exception raised by the n-th call
Exc(o, n) == [type |-> o, call |-> n]

NoExc == [type |-> "none", call |-> 0]

\* wrapper(*args): the first pass into the for loop; slept is the time spent in
\* time.sleep, the jitter left out
Wrapper(m, d, b) ==
    [state |-> IF m + 1 > 0 THEN "calling" ELSE "raised", max_retries |-> m,
     delay |-> d, backoff |-> b, attempt |-> 0, current_delay |-> d, slept |-> 0,
     last_exception |-> NoExc, log |-> <<>>, value |-> "none", raised |-> NoExc]

RetryInvoke(m, d, b) ==
    /\ retry = NoRetry
    /\ retry' = Wrapper(m, d, b)
    /\ UNCHANGED <<now, tasks, persist_file, jobs, running_tasks, exec, sched_alive, api,
                   ret, hist, calls, submits, disk, is_running, old_exec, rate_limit,
                   batchVars>>

\* One pass of the try block: func is called and returns or raises.
RetryCall(o) ==
    /\ retry # NoRetry
    /\ retry.state = "calling"
    /\ LET r == [retry EXCEPT !.log = Append(@, o)]
           e == Exc(o, Len(r.log))
       IN  retry' =
             IF ~Raises(o) THEN [r EXCEPT !.state = "returned", !.value = o]
             ELSE IF ~Caught(o) THEN [r EXCEPT !.state = "raised", !.raised = e]
             ELSE IF LastAttempt(r)
                  THEN [r EXCEPT !.state = "raised", !.raised = e, !.last_exception = e]
                  ELSE [r EXCEPT !.state = "sleeping", !.last_exception = e]
    /\ UNCHANGED <<now, tasks, persist_file, jobs, running_tasks, exec, sched_alive, api,
                   ret, hist, calls, submits, disk, is_running, old_exec, rate_limit,
                   batchVars>>

\* time.sleep(current_delay + jitter); current_delay *= backoff; then the next
\* pass of the loop, or `raise last_exception` after the last one.
RetrySleep ==
    /\ retry # NoRetry
    /\ retry.state = "sleeping"
    /\ LET r == [retry EXCEPT !.slept = @ + retry.current_delay,
                              !.current_delay = @ * retry.backoff,
                              !.attempt = @ + 1]
       IN  retry' = IF InRange(r) THEN [r EXCEPT !.state = "calling"]
                    ELSE [r EXCEPT !.state = "raised", !.raised = r.last_exception]
    /\ UNCHANGED <<now, tasks, persist_file, jobs, running_tasks, exec, sched_alive, api,
                   ret, hist, calls, submits, disk, is_running, old_exec, rate_limit,
                   batchVars>>

RetryInit ==
    /\ BatchIdle
    /\ EnvIdle
    /\ now = 0
    /\ tasks = <<>>
    /\ persist_file = <<>>
    /\ jobs = <<>>
    /\ running_tasks = {}
    /\ exec = NoExec
    /\ sched_alive = TRUE
    /\ api = NoCall
    /\ ret = NoRet
    /\ hist = [i \in TaskIds |-> NoHist]
    /\ calls = [adds |-> 0, restarts |-> 0]
    /\ submits = {}

RetryNext ==
    \/ \E m \in 0..MaxM, d \in Delays, b \in Backoffs : RetryInvoke(m, d, b)
    \/ \E o \in FuncOutcomes : RetryCall(o)
    \/ RetrySleep

RetrySpec == RetryInit /\ [][RetryNext]_vars

\* the calls made so far all raised an exception listed in `exceptions`
AllListed(log) == \A k \in DOMAIN log : log[k] = "listed"

\* C20: a function wrapped with max_retries = m is called at most m+1 times;
\* the wrapper returns the value of the first call that returns, right after
\* that call; it raises the exception of call m+1 when m+1 calls raised a
\* listed exception; and it lets an exception that is not listed through at
\* the call that raised it, a first call included, without calling again.
C20_RetryOnFailure ==
    retry # NoRetry =>
        LET n == Len(retry.log)
            earlier == SubSeq(retry.log, 1, n - 1)
        IN  /\ n <= retry.max_retries + 1
            /\ retry.state \in {"calling", "sleeping"} =>
                  AllListed(retry.log) /\ n <= retry.max_retries
            /\ retry.state = "returned" =>
                  /\ n >= 1 /\ AllListed(earlier)
                  /\ ~Raises(retry.log[n]) /\ retry.value = retry.log[n]
            /\ retry.state = "raised" =>
                  /\ n >= 1 /\ AllListed(earlier)
                  /\ retry.raised = Exc(retry.log[n], n)
                  /\ \/ retry.log[n] = "unlisted"
                     \/ retry.log[n] = "listed" /\ n = retry.max_retries + 1

\* The wrapper gave up after max_retries + 1 failing calls, two or more.
C20_Witness ==
    /\ retry # NoRetry
    /\ retry.state = "raised"
    /\ retry.max_retries >= 1
    /\ AllListed(retry.log)
    /\ Len(retry.log) = retry.max_retries + 1

----------------------------------------------------------------------------
(* utils.rate_limit *)

\* calls made to the wrapped function in a behaviour
MaxCalls == 3

\* 1.0 / calls_per_second, in clock ticks
MinIntervals == {1, 2}

\* time.time(): seconds since 1970; the process starts later than any
\* interval after that
Epoch == 2 * MaxTime

Time(t) == Epoch + t

\* rate_limit(calls_per_second): min_interval, last_called = [0.0]
RateLimit(mi) ==
    [state |-> "idle", min_interval |-> mi, last_called |-> 0, wake |-> 0, log |-> <<>>]

Decorate(mi) ==
    /\ rate_limit = NoLimiter
    /\ rate_limit' = RateLimit(mi)
    /\ UNCHANGED <<now, tasks, persist_file, jobs, running_tasks, exec, sched_alive, api,
                   ret, hist, calls, submits, disk, is_running, old_exec, retry,
                   batchVars>>

\* func is invoked: the call that entered the wrapper at `arrived` starts
Started(r, arrived, t) ==
    [r EXCEPT !.state = "running",
              !.log = Append(@, [arrived |-> arrived, started |-> Time(t)])]

\* wrapper(*args) up to the sleep: left_to_wait = min_interval - elapsed
LimitedCall ==
    /\ rate_limit # NoLimiter
    /\ rate_limit.state = "idle"
    /\ Len(rate_limit.log) < MaxCalls
    /\ LET elapsed == Time(now) - rate_limit.last_called
           left_to_wait == rate_limit.min_interval - elapsed
       IN  rate_limit' =
             IF left_to_wait > 0
             THEN [rate_limit EXCEPT !.state = "sleeping", !.wake = Time(now)]
             ELSE Started(rate_limit, Time(now), now)
    /\ UNCHANGED <<now, tasks, persist_file, jobs, running_tasks, exec, sched_alive, api,
                   ret, hist, calls, submits, disk, is_running, old_exec, retry,
                   batchVars>>

\* time.sleep(left_to_wait) returns, no sooner than asked
SleepEnds ==
    /\ rate_limit # NoLimiter
    /\ rate_limit.state = "sleeping"
    /\ LET elapsed == rate_limit.wake - rate_limit.last_called
           left_to_wait == rate_limit.min_interval - elapsed
       IN  Time(now) >= rate_limit.wake + left_to_wait
    /\ rate_limit' = Started(rate_limit, rate_limit.wake, now)
    /\ UNCHANGED <<now, tasks, persist_file, jobs, running_tasks, exec, sched_alive, api,
                   ret, hist, calls, submits, disk, is_running, old_exec, retry,
                   batchVars>>

\* func returns: last_called[0] = time.time()
FuncReturns ==
    /\ rate_limit # NoLimiter
    /\ rate_limit.state = "running"
    /\ rate_limit' = [rate_limit EXCEPT !.state = "idle", !.last_called = Time(now)]
    /\ UNCHANGED <<now, tasks, persist_file, jobs, running_tasks, exec, sched_alive, api,
                   ret, hist, calls, submits, disk, is_running, old_exec, retry,
                   batchVars>>

\* func raises: the exception leaves the wrapper before last_called is set
FuncRaises ==
    /\ rate_limit # NoLimiter
    /\ rate_limit.state = "running"
    /\ rate_limit' = [rate_limit EXCEPT !.state = "idle"]
    /\ UNCHANGED <<now, tasks, persist_file, jobs, running_tasks, exec, sched_alive, api,
                   ret, hist, calls, submits, disk, is_running, old_exec, retry,
                   batchVars>>

RateNext ==
    \/ \E mi \in MinIntervals : Decorate(mi)
    \/ LimitedCall
    \/ SleepEnds
    \/ FuncReturns
    \/ FuncRaises
    \/ Tick

RateSpec == RetryInit /\ [][RateNext]_vars

\* C21: the first call of a rate-limited function starts when it is made, and
\* every later call starts at least min_interval after the call before it.
C21_CallsSpaced ==
    rate_limit # NoLimiter =>
        LET log == rate_limit.log
        IN  /\ Len(log) >= 1 => log[1].started = log[1].arrived
            /\ \A k \in DOMAIN log :
                  k > 1 => log[k].started - log[k - 1].started >= rate_limit.min_interval

----------------------------------------------------------------------------
(* DatabaseManager.cleanup_old_data *)

\* largest days_to_keep passed to cleanup_old_data
MaxDays == 2

\* the tables of the schema
TableNames ==
    {"keywords", "content", "competitors", "technical_seo", "backlinks", "serp_tracking"}

\* `tables` in cleanup_old_data
CleanedTables == {"keywords", "content", "competitors", "technical_seo", "serp_tracking"}

\* datetime.isoformat(): fixed-width, zero-padded digits, most significant
\* first
isoformat(t) == <<Time(t) \div 10, Time(t) % 10>>

\* TEXT comparison of SQLite: by the first column that differs
TextLess(a, b) ==
    \E i \in DOMAIN a :
        /\ i \in DOMAIN b
        /\ a[i] < b[i]
        /\ \A j \in 1..(i - 1) : a[j] = b[j]

\* the cutoff with days_to_keep taken as clock ticks
cutoff_date_ticks(t, days_to_keep) == isoformat(t - days_to_keep)

\* (datetime.now() - timedelta(days=days_to_keep)).isoformat()
cutoff_date(t, days_to_keep) == isoformat(t - days_to_keep * DayLen)

\* DELETE FROM table WHERE timestamp < ?
DeleteOlder(table, cutoff) ==
    [k \in DOMAIN table |->
        IF table[k] # NoRow /\ TextLess(isoformat(table[k].timestamp), cutoff)
        THEN NoRow ELSE table[k]]

cleanup_old_data(store, t, days_to_keep) ==
    [name \in DOMAIN store |->
        IF name \in CleanedTables
        THEN DeleteOlder(store[name], cutoff_date(t, days_to_keep))
        ELSE store[name]]

CleanupOldData(days_to_keep) ==
    /\ db' = cleanup_old_data(db, now, days_to_keep)
    /\ ret' = [op |-> "cleanup_old_data", days |-> days_to_keep]
    /\ UNCHANGED <<now, registryVars, batch, items, semaphore, max_concurrent>>

\* ages of the rows the store holds at the start
StoredAges == {1, DayLen + 1}

\* Every table holds a row written at the start and an older one.
CleanInit ==
    /\ now = 0
    /\ ret = NoRet
    /\ tasks = <<>>
    /\ persist_file = <<>>
    /\ jobs = <<>>
    /\ running_tasks = {}
    /\ exec = NoExec
    /\ sched_alive = TRUE
    /\ api = NoCall
    /\ hist = [i \in TaskIds |-> NoHist]
    /\ calls = [adds |-> 0, restarts |-> 0]
    /\ submits = {}
    /\ EnvIdle
    /\ batch = [kind |-> "none", n |-> 0, state |-> "idle", returned |-> 0]
    /\ items = <<>>
    /\ semaphore = 0
    /\ max_concurrent = 0
    /\ db \in [TableNames ->
                 {[k \in Keys |-> IF k = KeyList[1] THEN Row(k, 0 - a, 0) ELSE Row(k, 0, 0)] :
                     a \in StoredAges}]

CleanNext ==
    \/ \E d \in 0..MaxDays : CleanupOldData(d)
    \/ Tick

CleanSpec == CleanInit /\ [][CleanNext]_vars

\* C22: cleanup_old_data(d) deletes every row of the keywords, content,
\* competitors, technical_seo and serp_tracking tables written more than d
\* days before the call, and leaves every row written after that instant as
\* it was.
C22_CleanupDeletesOld ==
    [][ret'.op = "cleanup_old_data" =>
          \A name \in TableNames \ {"backlinks"} : \A k \in Keys :
              LET row == db[name][k]
                  cutoff == now - ret'.days * DayLen
              IN  /\ (row # NoRow /\ row.timestamp < cutoff) => db'[name][k] = NoRow
                  /\ (row # NoRow /\ row.timestamp > cutoff) => db'[name][k] = row]_vars

\* A cleanup keeping one day or more has deleted a row of serp_tracking and
\* kept another.
C22_Witness ==
    /\ ret.op = "cleanup_old_data"
    /\ ret.days >= 1
    /\ db["serp_tracking"][KeyList[1]] = NoRow
    /\ db["serp_tracking"][KeyList[2]] # NoRow

----------------------------------------------------------------------------
(* Threads that miss the cache and save under the same key *)

\* threads inside analyze_content_enhanced at the same time
NumThreads == 2

Threads == 1..NumThreads

NoThread == 0

\* INSERT without OR REPLACE, the UNIQUE constraint left out
Insert(rows, row) == Append(rows, row)

\* INSERT OR REPLACE: the rows in conflict on the UNIQUE column are deleted,
\* then the new row is inserted
InsertOrReplace(rows, row) ==
    Append(SelectSeq(rows, LAMBDA r : r.key # row.key), row)

\* SELECT * FROM content WHERE url = ?; fetchone()
FetchOne(rows, k) ==
    LET found == SelectSeq(rows, LAMBDA r : r.key = k)
    IN  IF Len(found) = 0 THEN NoRow ELSE found[1]

\* The content table as a list of rows, the connection holding the write
\* lock with its uncommitted rows, and the rows committed so far in order.
StoreInit ==
    /\ now = 0
    /\ ret = NoRet
    /\ tasks = <<>>
    /\ persist_file = <<>>
    /\ jobs = <<>>
    /\ running_tasks = {}
    /\ exec = NoExec
    /\ sched_alive = TRUE
    /\ api = NoCall
    /\ hist = [i \in TaskIds |-> NoHist]
    /\ calls = [adds |-> 0, restarts |-> 0]
    /\ submits = {}
    /\ EnvIdle
    /\ batch = [kind |-> "threads", n |-> NumThreads, state |-> "running", returned |-> 0]
    /\ semaphore = 0
    /\ max_concurrent = 0
    /\ items \in [Threads -> {[pc |-> "start", key |-> k, row |-> NoRow] : k \in Keys}]
    /\ \E rows \in {<<>>, <<Row(KeyList[1], 0 - ContentTtl * DayLen, 0)>>} :
          db = [rows |-> rows, lock |-> NoThread, pending |-> rows, written |-> <<>>]

\* get_cached_content_data(url)
StoreCheckCache(i) ==
    /\ items[i].pc = "start"
    /\ LET cached == FetchOne(db.rows, items[i].key)
       IN  items' = [items EXCEPT ![i].pc =
                        IF cached # NoRow /\ Fresh(cached, ContentTtl, now)
                        THEN "hit" ELSE "missed"]
    /\ ret' = NoRet
    /\ UNCHANGED <<now, registryVars, batch, db, semaphore, max_concurrent>>

\* session.get and the parse: ContentData(..., timestamp=now)
StoreFetch(i) ==
    /\ items[i].pc = "missed"
    /\ items' = [items EXCEPT ![i].pc = "fetched", ![i].row = Row(items[i].key, now, i)]
    /\ ret' = NoRet
    /\ UNCHANGED <<now, registryVars, batch, db, semaphore, max_concurrent>>

\* save_content_data: cursor.execute takes the write lock of the file
StoreExecute(i) ==
    /\ items[i].pc = "fetched"
    /\ db.lock = NoThread
    /\ db' = [db EXCEPT !.lock = i, !.pending = InsertOrReplace(db.rows, items[i].row)]
    /\ items' = [items EXCEPT ![i].pc = "executed"]
    /\ ret' = NoRet
    /\ UNCHANGED <<now, registryVars, batch, semaphore, max_concurrent>>

\* cursor.execute while another connection keeps the lock past the busy
\* timeout: OperationalError, caught by analyze_content_enhanced
StoreLocked(i) ==
    /\ items[i].pc = "fetched"
    /\ db.lock \notin {NoThread, i}
    /\ items' = [items EXCEPT ![i].pc = "failed"]
    /\ ret' = NoRet
    /\ UNCHANGED <<now, registryVars, batch, db, semaphore, max_concurrent>>

\* conn.commit()
StoreCommit(i) ==
    /\ items[i].pc = "executed"
    /\ db' = [db EXCEPT !.lock = NoThread, !.rows = db.pending,
                        !.written = Append(@, items[i].row)]
    /\ items' = [items EXCEPT ![i].pc = "saved"]
    /\ ret' = NoRet
    /\ UNCHANGED <<now, registryVars, batch, semaphore, max_concurrent>>

StoreNext ==
    \/ \E i \in Threads : StoreCheckCache(i)
    \/ \E i \in Threads : StoreFetch(i)
    \/ \E i \in Threads : StoreExecute(i)
    \/ \E i \in Threads : StoreLocked(i)
    \/ \E i \in Threads : StoreCommit(i)
    \/ BatchTick

StoreSpec == StoreInit /\ [][StoreNext]_vars

\* the rows written under key k, in commit order
WrittenFor(k) == SelectSeq(db.written, LAMBDA r : r.key = k)

\* C23: whatever the interleaving of threads that miss the cache and save
\* under the same key, the table holds one row for a key that was saved, the
\* row committed last, and a thread that missed is free to fetch whatever
\* the other threads are doing.
C23_LastWriterWins ==
    /\ \A k \in Keys :
          LET w == WrittenFor(k)
              held == SelectSeq(db.rows, LAMBDA r : r.key = k)
          IN  /\ Len(held) <= 1
              /\ Len(w) > 0 => held = <<w[Len(w)]>>
    /\ \A i \in Threads : items[i].pc = "missed" => ENABLED StoreFetch(i)

\* Two threads missed on the same key and both saved.
C23_Witness ==
    /\ items[1].key = items[2].key
    /\ items[1].pc = "saved" /\ items[2].pc = "saved"
    /\ items[1].row # items[2].row

----------------------------------------------------------------------------
(* Properties of the scheduler: counters and next_run *)

\* C24: a PENDING task never has retry_count above max_retries, and
\* retry_count is 0 right after a run that succeeded.
C24_RetryCountBounded ==
    [][\A i \in TaskIds :
          /\ (Has(tasks', i) /\ Get(tasks', i).status = "PENDING") =>
                Get(tasks', i).retry_count <= Get(tasks', i).max_retries
          /\ (Ended(i) /\ Has(tasks, i) /\ Has(tasks', i)
                       /\ Get(tasks', i).run_count = Get(tasks, i).run_count + 1) =>
                Get(tasks', i).retry_count = 0]_vars

\* A task failed, was PENDING with a retry counted, and then succeeded.
C24_Witness ==
    \E i \in TaskIds :
        /\ Has(tasks, i)
        /\ hist[i].rp >= 1
        /\ Get(tasks, i).status = "COMPLETED"
        /\ Get(tasks, i).run_count >= 1
        /\ Get(tasks, i).retry_count = 0

----------------------------------------------------------------------------
(* A bulk call that is cancelled *)

\* what gather hands a cancelled item: CancelledError, raised at the await
\* the item stood at
Cancelled(holding) ==
    [kind |-> IF holding THEN "cancelled_holding" ELSE "cancelled", row |-> NoRow]

\* the permits left after n holders did not release theirs
ReleasedNone(sem, n) == sem

\* `async with semaphore` left by n holders: __aexit__ releases on every exit
Released(sem, n) == sem + n

\* The task awaiting the bulk call is cancelled (remove_task, stop_scheduler):
\* gather cancels every item still in flight; each leaves its `async with`
\* and `finally` blocks.
CancelBatch ==
    /\ batch.state = "running"
    /\ \E i \in DOMAIN items : items[i].pc # "done"
    /\ items' = [i \in DOMAIN items |->
                    IF items[i].pc = "done" THEN items[i]
                    ELSE Done([items[i] EXCEPT
                                  !.context = IF @ = "open" THEN "closed" ELSE @],
                              Cancelled(Holding(i)))]
    /\ semaphore' = Released(semaphore, Cardinality({i \in DOMAIN items : Holding(i)}))
    /\ batch' = [batch EXCEPT !.state = "cancelled"]
    /\ UNCHANGED <<now, ret, registryVars, db, max_concurrent>>

PermitNext ==
    \/ \E i \in Items : UrlCheckCache(i)
    \/ \E i \in Items : HttpAcquire(i)
    \/ \E i \in Items, response \in {"200", "404", "timeout"} : HttpGet(i, response)
    \/ \E i \in Items, out \in {"ok", "None", "raise"} : UrlProcess(i, out)
    \/ \E i \in Items : UrlSave(i)
    \/ \E i \in Items : KwAcquire(i)
    \/ \E i \in Items : KwCheckCache(i)
    \/ \E i \in Items, ok \in BOOLEAN : KwGetContext(i, ok)
    \/ \E i \in Items, ok \in BOOLEAN : KwPage(i, ok)
    \/ \E i \in Items, ok \in BOOLEAN : KwSave(i, ok)
    \/ Gather
    \/ CancelBatch
    \/ BatchTick

PermitSpec == BatchInit /\ [][PermitNext]_vars

\* C25: the free permits and the permits held by items add up to the cap in
\* every state, and every permit is free once the bulk call has returned or
\* was cancelled.
C25_PermitsPaired ==
    /\ semaphore + Cardinality({i \in DOMAIN items : Holding(i)})
          = Cap(batch.kind, max_concurrent)
    /\ batch.state \in {"returned", "cancelled"} =>
          semaphore = Cap(batch.kind, max_concurrent)

\* A bulk call was cancelled while one item held a permit, after another
\* item had failed.
C25_Witness ==
    /\ batch.state = "cancelled"
    /\ \E i, j \in DOMAIN items :
          /\ items[i].res.kind = "cancelled_holding"
          /\ items[j].env = "fail"

----------------------------------------------------------------------------
(* Two bulk calls at the same time *)

\* who runs a bulk call: the scheduler thread (_bulk_url_analysis_task,
\* _analyze_keywords_task) and an API request (SEOScraperApp)
Callers == {"scheduler", "api"}

\* the caller has not entered its bulk call
NoSemaphore == 0 - 1

\* items of caller c that hold a permit of the semaphore of c's call
HoldersOf(its, c) == {i \in Items : its[<<c, i>>] = "holding"}

\* A url or keyword bulk call is about to be made by each caller.
PairInit ==
    /\ now = 0
    /\ ret = NoRet
    /\ tasks = <<>>
    /\ persist_file = <<>>
    /\ jobs = <<>>
    /\ running_tasks = {}
    /\ exec = NoExec
    /\ sched_alive = TRUE
    /\ api = NoCall
    /\ hist = [i \in TaskIds |-> NoHist]
    /\ calls = [adds |-> 0, restarts |-> 0]
    /\ submits = {}
    /\ EnvIdle
    /\ db = <<>>
    /\ \E kind \in {"url", "kw"} :
          /\ batch = [kind |-> kind, n |-> NumItems, state |-> "pair", returned |-> 0]
          /\ max_concurrent \in (IF kind = "url" THEN 1..MaxConcurrent ELSE {0})
    /\ items = [p \in Callers \X Items |-> "unstarted"]
    /\ semaphore = [c \in Callers |-> NoSemaphore]

\* analyze_multiple_urls: `async with AsyncHTTPClient() as client`;
\* analyze_multiple_keywords: `semaphore = asyncio.Semaphore(3)`.  Each call
\* constructs its own semaphore and hands it to its own items.
BulkEnter(c) ==
    /\ batch.state = "pair"
    /\ semaphore[c] = NoSemaphore
    /\ semaphore' = [semaphore EXCEPT ![c] = Cap(batch.kind, max_concurrent)]
    /\ items' = [p \in DOMAIN items |-> IF p[1] = c THEN "start" ELSE items[p]]
    /\ UNCHANGED <<now, ret, registryVars, batch, db, max_concurrent>>

\* `async with semaphore` entered by item i of caller c
BulkAcquire(c, i) ==
    /\ batch.state = "pair"
    /\ items[<<c, i>>] = "start"
    /\ CanAcquire(semaphore[c])
    /\ semaphore' = [semaphore EXCEPT ![c] = @ - 1]
    /\ items' = [items EXCEPT ![<<c, i>>] = "holding"]
    /\ UNCHANGED <<now, ret, registryVars, batch, db, max_concurrent>>

\* `async with semaphore` left by item i of caller c
BulkRelease(c, i) ==
    /\ batch.state = "pair"
    /\ items[<<c, i>>] = "holding"
    /\ semaphore' = [semaphore EXCEPT ![c] = Released(@, 1)]
    /\ items' = [items EXCEPT ![<<c, i>>] = "done"]
    /\ UNCHANGED <<now, ret, registryVars, batch, db, max_concurrent>>

PairNext ==
    \/ \E c \in Callers : BulkEnter(c)
    \/ \E c \in Callers, i \in Items : BulkAcquire(c, i)
    \/ \E c \in Callers, i \in Items : BulkRelease(c, i)

PairSpec == PairInit /\ [][PairNext]_vars

\* C26: the items in flight of all bulk calls running at the same time,
\* taken together, never exceed the cap.
C26_GlobalCap ==
    batch.state = "pair" =>
        Cardinality({p \in DOMAIN items : items[p] = "holding"})
            <= Cap(batch.kind, max_concurrent)

----------------------------------------------------------------------------
(* AsyncHTTPClient.get: the delay between requests *)

\* AsyncHTTPClient.rate_limit, in clock ticks
RateLimitDelay == 1

\* the items of a bulk call whose urls are on the same host
SameHost == {1, 2}

NewRequest == [pc |-> "start", wake |-> 0, sent_at |-> 0]

\* One client, its last_request_time in `batch`, and the items of one host.
PoliteInit ==
    /\ now = 0
    /\ ret = NoRet
    /\ tasks = <<>>
    /\ persist_file = <<>>
    /\ jobs = <<>>
    /\ running_tasks = {}
    /\ exec = NoExec
    /\ sched_alive = TRUE
    /\ api = NoCall
    /\ hist = [i \in TaskIds |-> NoHist]
    /\ calls = [adds |-> 0, restarts |-> 0]
    /\ submits = {}
    /\ EnvIdle
    /\ db = <<>>
    /\ batch = [kind |-> "get", n |-> Cardinality(SameHost), state |-> "running",
                returned |-> 0, last_request_time |-> 0]
    /\ max_concurrent \in 1..MaxConcurrent
    /\ semaphore = max_concurrent
    /\ items = [i \in SameHost |-> NewRequest]

\* session.get(url) is entered
Sent(it, t) == [it EXCEPT !.pc = "sent", !.sent_at = Time(t)]

\* get up to the sleep: `async with self.semaphore`, then the time since
\* last_request_time is compared with rate_limit
PoliteAcquire(i) ==
    /\ batch.kind = "get"
    /\ items[i].pc = "start"
    /\ CanAcquire(semaphore)
    /\ semaphore' = semaphore - 1
    /\ LET time_since_last == Time(now) - batch.last_request_time
       IN  items' = [items EXCEPT ![i] =
                        IF time_since_last < RateLimitDelay
                        THEN [@ EXCEPT !.pc = "sleeping",
                                       !.wake = Time(now) + RateLimitDelay - time_since_last]
                        ELSE Sent(@, now)]
    /\ UNCHANGED <<now, ret, registryVars, batch, db, max_concurrent>>

\* asyncio.sleep(rate_limit - time_since_last) is over
PoliteWake(i) ==
    /\ batch.kind = "get"
    /\ items[i].pc = "sleeping"
    /\ Time(now) >= items[i].wake
    /\ items' = [items EXCEPT ![i] = Sent(@, now)]
    /\ UNCHANGED <<now, ret, registryVars, batch, db, semaphore, max_concurrent>>

\* the response arrives (last_request_time = time.time()), or session.get
\* raises; either way get returns and the permit is released
PoliteResponse(i, response) ==
    /\ batch.kind = "get"
    /\ items[i].pc = "sent"
    /\ batch' = IF response \in {"200", "404"}
                THEN [batch EXCEPT !.last_request_time = Time(now)]
                ELSE batch
    /\ items' = [items EXCEPT ![i].pc = "done"]
    /\ semaphore' = Released(semaphore, 1)
    /\ UNCHANGED <<now, ret, registryVars, db, max_concurrent>>

PoliteNext ==
    \/ \E i \in SameHost : PoliteAcquire(i)
    \/ \E i \in SameHost : PoliteWake(i)
    \/ \E i \in SameHost, response \in {"200", "404", "timeout"} : PoliteResponse(i, response)
    \/ Tick

PoliteSpec == PoliteInit /\ [][PoliteNext]_vars

\* C27: two requests to the same host are sent at least the minimum delay
\* apart.
C27_HostSpacing ==
    batch.kind = "get" =>
        \A i, j \in SameHost :
            (i # j /\ items[i].pc \in {"sent", "done"} /\ items[j].pc \in {"sent", "done"}
                   /\ items[i].sent_at <= items[j].sent_at) =>
                items[j].sent_at - items[i].sent_at >= RateLimitDelay

\* the times at which the jobs armed for task id will fire next
FireTimes(js, id) == {js[j].next_run : j \in {k \in DOMAIN js : js[k].tag = id}}

\* the task has no further run: it is FAILED, its run cap is reached, or it
\* is a once task that has run
NoFurtherRun(t) ==
    \/ t.status = "FAILED"
    \/ MaxRunsReached(t)
    \/ (t.schedule_type = "once" /\ t.run_count >= 1)

\* C28: when an execution has ended, the task's next_run is the time at which
\* its trigger fires next if the task will run again, and is null if it has
\* no further run.
C28_NextRunRecomputed ==
    [][\A i \in TaskIds :
          (Ended(i) /\ Has(tasks', i)) =>
              LET t == Get(tasks', i)
              IN  IF NoFurtherRun(t)
                  THEN t.next_run = None
                  ELSE /\ t.next_run \in FireTimes(jobs', i)
                       /\ \A u \in FireTimes(jobs', i) : t.next_run <= u]_vars

\* task a is dispatched ahead of task b: higher priority, or the same priority
\* and created earlier
Ahead(a, b) ==
    \/ PriorityValue(a.priority) > PriorityValue(b.priority)
    \/ (a.priority = b.priority /\ a.created_at < b.created_at)

\* C29: when an execution starts, no task that is due at the same time with
\* a higher priority, or with the same priority and an earlier created_at,
\* is still waiting to start.
C29_DispatchByPriority ==
    [][(exec = NoExec /\ exec' # NoExec) =>
          \A k \in DOMAIN jobs :
              (/\ k # exec'.job
               /\ jobs[k].tag # exec'.id
               /\ jobs[k].next_run = jobs[exec'.job].next_run
               /\ Has(tasks, jobs[k].tag)
               /\ ~MaxRunsReached(Get(tasks, jobs[k].tag)))
              => ~Ahead(Get(tasks, jobs[k].tag), Get(tasks, exec'.id))]_vars

\* C30: an execution that took time does not hold back another task that was
\* due when it started: when it ends, no such task is still waiting to start.
C30_DueTasksNotDelayed ==
    [][(exec # NoExec /\ exec' = NoExec /\ now > exec.started) =>
          \A k \in DOMAIN jobs :
              (/\ jobs[k].tag # exec.id
               /\ jobs[k].next_run <= exec.started
               /\ Has(tasks, jobs[k].tag)
               /\ ~MaxRunsReached(Get(tasks, jobs[k].tag)))
              => FALSE]_vars

----------------------------------------------------------------------------
(* _execute_task statement by statement, and a status query in between *)

\* The attribute assignments of _execute_task before the handler, in order.
StartAssignments(t) == << <<"status", "RUNNING">>, <<"last_run", t>> >>

\* The attribute assignments of the branch of _execute_task that the outcome
\* o of the handler selects, in order, for the task object t.
EndAssignments(t, o) ==
    CASE o \in {"success", "empty"} ->
             << <<"result", HandlerResult(o)>>, <<"status", "COMPLETED">>,
                <<"run_count", t.run_count + 1>>, <<"retry_count", 0>> >>
      [] o = "timeout" -> << <<"error", "timed out">>, <<"status", "FAILED">> >>
      [] o = "exception" ->
             << <<"error", "error">>, <<"retry_count", t.retry_count + 1>>,
                <<"status", IF t.retry_count + 1 <= t.max_retries
                            THEN "PENDING" ELSE "FAILED">> >>

\* one assignment, and a sequence of them
Assign(t, a) == [t EXCEPT ![a[1]] = a[2]]

RECURSIVE AssignAll(_, _)
AssignAll(t, as) == IF as = <<>> THEN t ELSE AssignAll(Assign(t, Head(as)), Tail(as))

\* _execute_task_wrapper up to the first statement of _execute_task: the
\* asyncio task is in running_tasks and the task object is fetched.
WrapperEnter(j) ==
    /\ sched_alive /\ exec = NoExec
    /\ FirstDue(jobs, now, j)
    /\ Has(tasks, jobs[j].tag)
    /\ LET t == Get(tasks, jobs[j].tag)
       IN  /\ ~MaxRunsReached(t)
           /\ hist' = [hist EXCEPT ![t.id].prev = t.last_run]
           /\ running_tasks' = running_tasks \cup {t.id}
           /\ exec' = [id |-> t.id, job |-> j, started |-> now, attached |-> TRUE,
                       cancelled |-> FALSE, task |-> NoTask, phase |-> "start",
                       before |-> t, todo |-> StartAssignments(now)]
    /\ ret' = NoRet
    /\ UNCHANGED <<now, tasks, persist_file, jobs, sched_alive, api, calls, submits,
                   envVars, batchVars>>

\* the next assignment of _execute_task
ExecAssign ==
    /\ exec # NoExec
    /\ exec.todo # <<>>
    /\ tasks' = Put(tasks, Assign(Get(tasks, exec.id), Head(exec.todo)))
    /\ exec' = [exec EXCEPT !.todo = Tail(@)]
    /\ ret' = NoRet
    /\ UNCHANGED <<now, persist_file, jobs, running_tasks, sched_alive, api, hist, calls,
                   submits, envVars, batchVars>>

\* self._save_tasks() after the first two assignments; the handler is entered
ExecSaveStart ==
    /\ exec # NoExec
    /\ exec.todo = <<>> /\ exec.phase = "start"
    /\ persist_file' = WriteTasks(persist_file, tasks)
    /\ exec' = [exec EXCEPT !.phase = "handler"]
    /\ ret' = NoRet
    /\ UNCHANGED <<now, tasks, jobs, running_tasks, sched_alive, api, hist, calls,
                   submits, envVars, batchVars>>

\* the handler returns or raises, or wait_for times out: the branch is entered
HandlerEnds(o) ==
    /\ exec # NoExec
    /\ exec.phase = "handler"
    /\ LET t == Get(tasks, exec.id)
       IN  /\ o \in Outcomes(t, now - exec.started)
           /\ exec' = [exec EXCEPT !.phase = "end", !.before = t,
                                   !.todo = EndAssignments(t, o)]
    /\ ret' = NoRet
    /\ UNCHANGED <<now, tasks, persist_file, jobs, running_tasks, sched_alive, api, hist,
                   calls, submits, envVars, batchVars>>

\* the finally clauses of _execute_task and of the wrapper, and Job.run
ExecSaveEnd ==
    /\ exec # NoExec
    /\ exec.todo = <<>> /\ exec.phase = "end"
    /\ persist_file' = WriteTasks(persist_file, tasks)
    /\ running_tasks' = running_tasks \ {exec.id}
    /\ jobs' = Rearm(jobs, exec.job, now)
    /\ hist' = [hist EXCEPT ![exec.id].n = @ + 1]
    /\ exec' = NoExec
    /\ ret' = NoRet
    /\ UNCHANGED <<now, tasks, sched_alive, api, calls, submits, envVars, batchVars>>

\* TaskManager.get_task_status(task_id), called from a thread of the API.  The
\* reads of the attributes are taken together, as one step.
GetTaskStatusCall(id) ==
    /\ api = NoCall
    /\ ret' = [op |-> "get_task_status", id |-> id, val |-> GetTaskStatus(tasks, id)]
    /\ UNCHANGED <<now, registryVars, batchVars>>

\* Task 1 was submitted at time 0.
QueryInit ==
    /\ BatchIdle
    /\ EnvIdle
    /\ now = 0
    /\ \E sh \in StopShapes :
          LET task == ScheduledTask(1, sh, 0)
              ts1 == Put(<<>>, task)
              r == ScheduleTask(ts1, <<>>, WriteTasks(<<>>, ts1), task, 0)
          IN  /\ tasks = r.tasks
              /\ jobs = r.jobs
              /\ persist_file = r.file
    /\ running_tasks = {}
    /\ exec = NoExec
    /\ sched_alive = TRUE
    /\ api = NoCall
    /\ ret = NoRet
    /\ hist = [i \in TaskIds |-> NoHist]
    /\ calls = [adds |-> 0, restarts |-> 0]
    /\ submits = {1} \X StopShapes

QueryNext ==
    \/ \E j \in DOMAIN jobs : FireMaxRuns(j)
    \/ \E j \in DOMAIN jobs : WrapperEnter(j)
    \/ ExecAssign
    \/ ExecSaveStart
    \/ \E o \in {"success", "exception", "timeout"} : HandlerEnds(o)
    \/ ExecSaveEnd
    \/ \E s \in submits : GetTaskStatusCall(s[1])
    \/ Tick

QuerySpec == QueryInit /\ [][QueryNext]_vars

\* the task as it was when the transition in progress began, and as it will
\* be when the transition is over
PreTransition(id) ==
    IF exec # NoExec /\ exec.id = id /\ exec.phase # "handler"
    THEN exec.before ELSE Get(tasks, id)

PostTransition(id) ==
    IF exec # NoExec /\ exec.id = id
    THEN AssignAll(Get(tasks, id), exec.todo) ELSE Get(tasks, id)

\* C31: a status query made at any point of a transition returns the field
\* values the task had before the transition, or the values it has after it,
\* never some of each.
C31_QuerySeesWholeTransition ==
    [][ret'.op = "get_task_status" =>
          \/ ret'.val = GetTaskStatus(<<PreTransition(ret'.id)>>, ret'.id)
          \/ ret'.val = GetTaskStatus(<<PostTransition(ret'.id)>>, ret'.id)]_vars

----------------------------------------------------------------------------
(* _save_tasks in its two steps, and a process that dies between them *)

\* open(self.persist_file, 'wb'): the file is truncated before anything is
\* written to it
OpenForWriting(pf) == <<>>

\* the execution in flight, or the add_task call in progress, is inside
\* _save_tasks: it has opened the file and not yet dumped the registry
Saving(e) == "pre" \in DOMAIN e

\* the file as it was before the saves now in progress began
PreSave == IF Saving(exec) THEN exec.pre
           ELSE IF Saving(api) THEN api.pre
           ELSE persist_file

\* add_task: `self.tasks[task.id] = task`, and _save_tasks up to the open
AddTaskOpen(id, sh) ==
    /\ api = NoCall
    /\ calls.adds < MaxAdds
    /\ calls' = [calls EXCEPT !.adds = @ + 1]
    /\ tasks' = Put(tasks, ScheduledTask(id, sh, now))
    /\ api' = [op |-> "add_task", id |-> id, pc |-> "dump", pre |-> PreSave]
    /\ persist_file' = OpenForWriting(persist_file)
    /\ exec' = Detach(exec, id, FALSE)
    /\ hist' = [hist EXCEPT ![id] = NoHist]
    /\ ret' = NoRet
    /\ UNCHANGED <<now, jobs, running_tasks, sched_alive, submits, envVars, batchVars>>

\* pickle.dump of the first save of add_task
AddTaskDump ==
    /\ api # NoCall /\ api.pc = "dump"
    /\ persist_file' = SaveTasks(tasks)
    /\ api' = [op |-> "add_task", id |-> api.id, pc |-> "schedule"]
    /\ ret' = NoRet
    /\ UNCHANGED <<now, tasks, jobs, running_tasks, exec, sched_alive, hist, calls,
                   submits, envVars, batchVars>>

\* _schedule_task: the job is armed, next_run is copied into the task (the
\* task object add_task was given, registered or not by now), and _save_tasks
\* opens the file again
AddTaskSchedule ==
    /\ api # NoCall /\ api.pc = "schedule"
    /\ Has(tasks, api.id)
    /\ LET r == ScheduleTask(tasks, jobs, persist_file, Get(tasks, api.id), now)
       IN  /\ tasks' = r.tasks
           /\ jobs' = r.jobs
    /\ api' = [op |-> "add_task", id |-> api.id, pc |-> "dump2", pre |-> PreSave]
    /\ persist_file' = OpenForWriting(persist_file)
    /\ ret' = NoRet
    /\ UNCHANGED <<now, running_tasks, exec, sched_alive, hist, calls, submits, envVars,
                   batchVars>>

\* pickle.dump of the second save; add_task returns the id
AddTaskReturn ==
    /\ api # NoCall /\ api.pc = "dump2"
    /\ persist_file' = SaveTasks(tasks)
    /\ api' = NoCall
    /\ ret' = [op |-> "add_task", id |-> api.id]
    /\ UNCHANGED <<now, tasks, jobs, running_tasks, exec, sched_alive, hist, calls,
                   submits, envVars, batchVars>>

\* _execute_task after the handler: the branch that the outcome selects, and
\* _save_tasks of the finally clause up to the open
ExecEndOpen(o) ==
    /\ exec # NoExec /\ ~Saving(exec)
    /\ o \in Outcomes(ExecTask, now - exec.started)
    /\ IF exec.attached
       THEN /\ tasks' = Put(tasks, Outcome(ExecTask, o))
            /\ hist' = [hist EXCEPT ![exec.id].n = @ + 1]
       ELSE UNCHANGED <<tasks, hist>>
    /\ exec' = [id |-> exec.id, job |-> exec.job, started |-> exec.started,
                attached |-> exec.attached, cancelled |-> exec.cancelled,
                task |-> IF exec.attached THEN NoTask ELSE Outcome(ExecTask, o),
                pre |-> PreSave]
    /\ persist_file' = OpenForWriting(persist_file)
    /\ ret' = NoRet
    /\ UNCHANGED <<now, jobs, running_tasks, sched_alive, api, calls, submits, envVars,
                   batchVars>>

\* pickle.dump of that save, the finally clause of the wrapper and Job.run
ExecEndDump ==
    /\ exec # NoExec /\ Saving(exec)
    /\ persist_file' = SaveTasks(tasks)
    /\ running_tasks' = running_tasks \ {exec.id}
    /\ jobs' = Rearm(jobs, exec.job, now)
    /\ exec' = NoExec
    /\ ret' = NoRet
    /\ UNCHANGED <<now, tasks, sched_alive, api, hist, calls, submits, envVars, batchVars>>

CrashNext ==
    \/ \E s \in submits : AddTaskOpen(s[1], s[2])
    \/ AddTaskDump
    \/ AddTaskSchedule
    \/ AddTaskReturn
    \/ \E j \in DOMAIN jobs : FireMaxRuns(j)
    \/ \E j \in DOMAIN jobs : ExecStart(j)
    \/ \E o \in {"success", "exception", "timeout"} : ExecEndOpen(o)
    \/ ExecEndDump
    \/ Tick
    \/ Restart

CrashSpec == StopInit /\ [][CrashNext]_vars

\* C32: when the process dies while a save is in progress, in one thread or
\* in two, the registry loaded from the file is the registry of the file as
\* it was before the save, or the registry that was being saved.
C32_SaveIsAtomic ==
    [][(ret'.op = "restart" /\ (Saving(exec) \/ Saving(api))) =>
          \/ tasks' = LoadTasks(PreSave, now).tasks
          \/ tasks' = LoadTasks(SaveTasks(tasks), now).tasks]_vars

----------------------------------------------------------------------------
(* Properties of the scheduler: removal *)

----------------------------------------------------------------------------
(* Properties of the scheduler: when an interval task is due *)

\* run_pending would run a job of the task now
Due(i) == \E j \in DOMAIN jobs : jobs[j].tag = i /\ ShouldRun(jobs[j], now)

\* C34: an interval task that has never run is due from the first tick after
\* its submission; one that has run and is not running is due whenever
\* now - last_run >= period.
C34_IntervalDue ==
    \A i \in TaskIds :
        (Has(tasks, i) /\ Get(tasks, i).schedule_type = "interval") =>
            LET t == Get(tasks, i)
            IN  /\ (t.last_run = None /\ t.status = "PENDING" /\ now > t.created_at) => Due(i)
                /\ (t.last_run # None /\ t.status # "RUNNING"
                                      /\ now - t.last_run >= t.schedule_value) => Due(i)

\* C35: when an execution ends in PENDING (a retry is left), the job of an
\* interval or once task that ran is due at the next tick; the job of a daily
\* or weekly task is due at its next occurrence and not before.
C35_RetryEligibleAtOnce ==
    [][\A i \in TaskIds :
          (Ended(i) /\ Get(tasks', i).status = "PENDING") =>
              LET t == Get(tasks', i)
                  j == exec.job
              IN  IF t.schedule_type \in {"interval", "once"}
                  THEN ShouldRun(jobs'[j], now + 1)
                  ELSE /\ jobs'[j].next_run = NextRun(jobs[j], now)
                       /\ ~ShouldRun(jobs'[j], now)]_vars

----------------------------------------------------------------------------
(* A scheduler constructed over a file that holds malformed records *)

\* the kinds of record a file holds: two that _save_tasks writes, and four
\* that lines 331-334 of _load_tasks raise on
RecordKinds == {"pending", "completed", "bad_status", "bad_priority", "missing", "extra"}

\* the record _save_tasks wrote for an interval task submitted at time 0,
\* and the same record changed into one of the given kind
Persisted(id, kind) ==
    LET sh == CHOOSE s \in DiskShapes : TRUE
        task == ScheduledTask(id, sh, 0)
        d == SaveTasks(ScheduleTask(<<task>>, <<>>, <<>>, task, 0).tasks)[1]
    IN  CASE kind = "pending" -> d
          [] kind = "completed" -> [d EXCEPT !.status = StatusValue("COMPLETED"), !.run_count = 1]
          [] kind = "bad_status" -> [d EXCEPT !.status = "paused"]
          [] kind = "bad_priority" -> [d EXCEPT !.priority = 9]
          [] kind = "missing" -> [f \in FieldNames \ {"function"} |-> d[f]]
          [] kind = "extra" -> [f \in FieldNames \cup {"owner"} |->
                                   IF f = "owner" THEN "none" ELSE d[f]]

\* tasks.pkl holds a record for id 1 and one for id 2; no process is running
LoadInit ==
    /\ BatchIdle
    /\ EnvIdle
    /\ now = 0
    /\ tasks = <<>>
    /\ \E k1, k2 \in RecordKinds : persist_file = <<Persisted(1, k1), Persisted(2, k2)>>
    /\ jobs = <<>>
    /\ running_tasks = {}
    /\ exec = NoExec
    /\ sched_alive = FALSE
    /\ api = NoCall
    /\ ret = NoRet
    /\ hist = [i \in TaskIds |-> NoHist]
    /\ calls = [adds |-> 0, restarts |-> 0]
    /\ submits = {}

LoadNext ==
    \/ Restart
    \/ \E j \in DOMAIN jobs : ExecStart(j)
    \/ \E o \in {"success", "exception", "timeout"} : ExecEnd(o)
    \/ Tick

LoadSpec == LoadInit /\ [][LoadNext]_vars

\* C36: constructing the scheduler over the file succeeds; every well-formed
\* record of the file is registered afterwards, whatever the other records
\* are, and every well-formed pending one is armed.
C36_LoadRejectsOnlyMalformed ==
    [][ret'.op = "restart" =>
          /\ sched_alive'
          /\ \A k \in DOMAIN persist_file :
                WellFormed(persist_file[k]) =>
                    /\ Has(tasks', persist_file[k].id)
                    /\ persist_file[k].status = StatusValue("PENDING") =>
                           Armed(jobs', persist_file[k].id) # {}]_vars

----------------------------------------------------------------------------
(* Properties of the scheduler: RUNNING and running_tasks *)

\* no execution is in flight and no call is in progress
Quiescent == exec = NoExec /\ old_exec = NoExec /\ api = NoCall

\* C37: in a quiescent state a task is RUNNING, in the registry or in the
\* file, if and only if it has an entry in running_tasks; so with no
\* execution in flight no task is RUNNING.
C37_RunningIffInFlight ==
    Quiescent =>
        \A i \in TaskIds :
            /\ Has(tasks, i) => (Get(tasks, i).status = "RUNNING" <=> i \in running_tasks)
            /\ Has(persist_file, i) =>
                  (Get(persist_file, i).status = StatusValue("RUNNING") <=> i \in running_tasks)

----------------------------------------------------------------------------
(* Properties of the scheduler: the jobs of an id *)

\* C38: at most one job is armed for a task id, so that the executions of
\* the id that one period of its trigger starts are at most one.
C38_OneJobPerTask ==
    \A i \in TaskIds : Len(GetJobs(jobs, i)) <= 1

----------------------------------------------------------------------------
(* schedule.run_pending job by job, and stop_scheduler in between *)

\* sorted(job for job in self.jobs if job.should_run): the jobs that are due
\* when run_pending is entered, by next_run and then by place in the list
RunnableJobs(js, t) ==
    LET due == {j \in DOMAIN js : ShouldRun(js[j], t)}
    IN  CHOOSE s \in [1..Cardinality(due) -> due] :
            \A a, b \in DOMAIN s :
                a < b => \/ js[s[a]].next_run < js[s[b]].next_run
                         \/ (js[s[a]].next_run = js[s[b]].next_run /\ s[a] < s[b])

\* the scheduler thread is inside run_pending, between two jobs
Between(rest) == [id |-> 0, runnable |-> rest]

\* an execution of a task is in flight
InFlight(e) == e # NoExec /\ e.id # 0

\* _run_scheduler: `while self.is_running: schedule.run_pending()`
RunPending ==
    /\ sched_alive /\ exec = NoExec
    /\ is_running
    /\ \E j \in DOMAIN jobs : ShouldRun(jobs[j], now)
    /\ exec' = Between(RunnableJobs(jobs, now))
    /\ ret' = NoRet
    /\ UNCHANGED <<now, tasks, persist_file, jobs, running_tasks, sched_alive, api, hist,
                   calls, submits, envVars, batchVars>>

\* the next job of the list: _execute_task_wrapper up to its return, or up to
\* the first await of _execute_task
RunJob ==
    /\ exec # NoExec /\ exec.id = 0
    /\ exec.runnable # <<>>
    /\ LET j == Head(exec.runnable)
           id == jobs[j].tag
       IN  IF ~Has(tasks, id)
           THEN /\ jobs' = Rearm(jobs, j, now)
                /\ exec' = Between(Tail(exec.runnable))
                /\ UNCHANGED <<tasks, persist_file, running_tasks, hist>>
           ELSE IF MaxRunsReached(Get(tasks, id))
           THEN /\ tasks' = Put(tasks, [Get(tasks, id) EXCEPT !.status = "COMPLETED"])
                /\ persist_file' = WriteTasks(persist_file, tasks')
                /\ jobs' = Rearm(jobs, j, now)
                /\ exec' = Between(Tail(exec.runnable))
                /\ UNCHANGED <<running_tasks, hist>>
           ELSE /\ tasks' = Put(tasks, [Get(tasks, id) EXCEPT !.status = "RUNNING",
                                                             !.last_run = now])
                /\ persist_file' = WriteTasks(persist_file, tasks')
                /\ hist' = [hist EXCEPT ![id].prev = Get(tasks, id).last_run]
                /\ running_tasks' = running_tasks \cup {id}
                /\ exec' = [id |-> id, job |-> j, started |-> now, attached |-> TRUE,
                            cancelled |-> FALSE, task |-> NoTask,
                            runnable |-> Tail(exec.runnable)]
                /\ UNCHANGED jobs
    /\ ret' = NoRet
    /\ UNCHANGED <<now, sched_alive, api, calls, submits, envVars, batchVars>>

\* the rest of _execute_task and of the wrapper; run_pending goes on with the
\* jobs that are left
JobEnd(o) ==
    /\ InFlight(exec)
    /\ o \in Outcomes(ExecTask, now - exec.started)
    /\ IF exec.attached
       THEN /\ tasks' = Put(tasks, Outcome(ExecTask, o))
            /\ hist' = [hist EXCEPT ![exec.id].n = @ + 1]
       ELSE UNCHANGED <<tasks, hist>>
    /\ persist_file' = WriteTasks(persist_file, tasks')
    /\ running_tasks' = running_tasks \ {exec.id}
    /\ jobs' = Rearm(jobs, exec.job, now)
    /\ exec' = Between(exec.runnable)
    /\ ret' = NoRet
    /\ UNCHANGED <<now, sched_alive, api, calls, submits, envVars, batchVars>>

\* CancelledError leaves _execute_task through its finally clause, and ends
\* run_pending and the thread
JobCancelled ==
    /\ InFlight(exec)
    /\ exec.cancelled
    /\ persist_file' = WriteTasks(persist_file, tasks)
    /\ running_tasks' = running_tasks \ {exec.id}
    /\ exec' = NoExec
    /\ sched_alive' = FALSE
    /\ ret' = NoRet
    /\ UNCHANGED <<now, tasks, jobs, api, hist, calls, submits, envVars, batchVars>>

\* run_pending returns; the loop goes on while is_running
RunPendingReturns ==
    /\ exec # NoExec /\ exec.id = 0
    /\ exec.runnable = <<>>
    /\ exec' = NoExec
    /\ sched_alive' = is_running
    /\ ret' = NoRet
    /\ UNCHANGED <<now, tasks, persist_file, jobs, running_tasks, api, hist, calls,
                   submits, envVars, batchVars>>

\* stop_scheduler, called while the thread sleeps or is inside an execution
\* that outlasts the join (a thread between two jobs starts the next one
\* before the join gives up)
StopAndJoin ==
    /\ exec = NoExec \/ InFlight(exec)
    /\ StopScheduler

DrainInit ==
    /\ BatchIdle
    /\ EnvIdle
    /\ now = 0
    /\ tasks = <<>>
    /\ persist_file = <<>>
    /\ jobs = <<>>
    /\ running_tasks = {}
    /\ exec = NoExec
    /\ sched_alive = TRUE
    /\ api = NoCall
    /\ ret = NoRet
    /\ hist = [i \in TaskIds |-> NoHist]
    /\ calls = [adds |-> 0, restarts |-> 0]
    /\ submits = TaskIds \X StopShapes

DrainNext ==
    \/ \E s \in submits : AddTask(s[1], s[2])
    \/ RunPending
    \/ RunJob
    \/ \E o \in {"success", "exception", "timeout"} : JobEnd(o)
    \/ JobCancelled
    \/ RunPendingReturns
    \/ StopAndJoin
    \/ Tick

DrainSpec == DrainInit /\ [][DrainNext]_vars

\* C39: once stop_scheduler has returned, no execution starts, and no task
\* of the registry or of the file changes, other than by a new submission.
C39_StoppedIsStill ==
    [][(~is_running /\ calls' = calls) =>
          /\ tasks' = tasks
          /\ persist_file' = persist_file
          /\ ~InFlight(exec) => ~InFlight(exec')]_vars

----------------------------------------------------------------------------
(* get_context in its two awaits *)

\* browser.new_context(...): the context is open from here on; when it
\* raises, get_context logs and returns None
KwNewContext(i, ok) ==
    /\ At(i, "kw", "get_context")
    /\ IF ok
       THEN /\ items' = [items EXCEPT ![i] =
                            [@ EXCEPT !.fetched = TRUE, !.context = "open",
                                      !.pc = "add_init_script"]]
            /\ semaphore' = semaphore
       ELSE /\ items' = [items EXCEPT ![i] =
                            Done([@ EXCEPT !.fetched = TRUE, !.env = "fail"], ReturnedNone)]
            /\ semaphore' = semaphore + 1
    /\ UNCHANGED <<now, ret, registryVars, batch, db, max_concurrent>>

\* context.add_init_script(...) and `return context`; when it raises, the same
\* except clause logs and returns None, and _analyze_single_keyword returns
\* None before its try block
KwAddInitScript(i, ok) ==
    /\ At(i, "kw", "add_init_script")
    /\ IF ok
       THEN /\ items' = [items EXCEPT ![i].pc = "page"]
            /\ semaphore' = semaphore
       ELSE /\ items' = [items EXCEPT ![i] = Done([@ EXCEPT !.env = "fail"], ReturnedNone)]
            /\ semaphore' = semaphore + 1
    /\ UNCHANGED <<now, ret, registryVars, batch, db, max_concurrent>>

\* a bulk call of analyze_multiple_keywords
ContextInit == BatchInit /\ batch.kind = "kw"

ContextNext ==
    \/ \E i \in Items : KwAcquire(i)
    \/ \E i \in Items : KwCheckCache(i)
    \/ \E i \in Items, ok \in BOOLEAN : KwNewContext(i, ok)
    \/ \E i \in Items, ok \in BOOLEAN : KwAddInitScript(i, ok)
    \/ \E i \in Items, ok \in BOOLEAN : KwPage(i, ok)
    \/ \E i \in Items, ok \in BOOLEAN : KwSave(i, ok)
    \/ Gather
    \/ BatchTick

ContextSpec == ContextInit /\ [][ContextNext]_vars

\* the contexts of the batch that are open
OpenContexts == {i \in DOMAIN items : items[i].context = "open"}

\* C40: an item that has returned has left no context open, and the open
\* contexts of a batch are at most 3.
C40_ContextsClosed ==
    /\ \A i \in DOMAIN items : items[i].pc = "done" => i \notin OpenContexts
    /\ Cardinality(OpenContexts) <= BrowserCap

====
